---- MODULE Spec2Model ----
(***************************************************************************)
(* Patch application, self-correcting refactor loop and undo history of    *)
(* the GAS code assistant (src/App.tsx).                                   *)
(*                                                                         *)
(* Strings are sequences of one-character strings; indices are 0-based as  *)
(* in JavaScript, and -1 is "not found".                                   *)
(***************************************************************************)
EXTENDS Integers, Sequences, FiniteSets, TLC

\* ------------------------------------------------------------------------
\* Bounds of the model
\* ------------------------------------------------------------------------
MaxContentLen == 3
MaxSnippetLen == 2
MaxCorrectedLen == 2
MaxChanges == 2

\* ------------------------------------------------------------------------
\* Program constants
\* ------------------------------------------------------------------------
MAX_UNDO_STACK_SIZE == 10
MAX_ATTEMPTS == 3

\* An optional number that is absent (changesCount?: number).
Undefined == -1
\* An absent optional value is the empty sequence, a present one <<value>>.
Null == <<>>
Some(x) == <<x>>
SNIPPET_NOT_FOUND == "SNIPPET_NOT_FOUND"

\* ------------------------------------------------------------------------
\* Generic helpers
\* ------------------------------------------------------------------------
Min(S) == CHOOSE x \in S : \A y \in S : x <= y
Max2(a, b) == IF a >= b THEN a ELSE b

SeqsUpTo(A, n) == UNION {[1..k -> A] : k \in 0..n}

\* ------------------------------------------------------------------------
\* String primitives of JavaScript used by applyChangesToFiles
\* ------------------------------------------------------------------------

\* A faulty indexOf that ignores the start position (always scans from 0).
IndexOfIgnoringStart(s, sub, from) ==
  LET n == Len(sub)
      cands == {k \in 0..(Len(s) - n) : SubSeq(s, k + 1, k + n) = sub}
  IN  IF cands = {} THEN -1 ELSE Min(cands)

\* String.prototype.indexOf(sub, from): the least index >= from (clamped to
\* 0..length) at which sub occurs, -1 if there is none.
IndexOf(s, sub, from) ==
  LET n == Len(sub)
      pos == IF from < 0 THEN 0 ELSE IF from > Len(s) THEN Len(s) ELSE from
      cands == {k \in pos..(Len(s) - n) : SubSeq(s, k + 1, k + n) = sub}
  IN  IF cands = {} THEN -1 ELSE Min(cands)

\* String.prototype.substring(a, b) with both arguments clamped to 0..length
\* and swapped when a > b.
Substring(s, a, b) ==
  LET ca == IF a < 0 THEN 0 ELSE IF a > Len(s) THEN Len(s) ELSE a
      cb == IF b < 0 THEN 0 ELSE IF b > Len(s) THEN Len(s) ELSE b
      lo == IF ca <= cb THEN ca ELSE cb
      hi == IF ca <= cb THEN cb ELSE ca
  IN  SubSeq(s, lo + 1, hi)

\* (file.changesCount || 0)
CountOrZero(c) == IF c = Undefined THEN 0 ELSE c

\* ------------------------------------------------------------------------
\* applyChangesToFiles (src/App.tsx:300-368)
\* ------------------------------------------------------------------------

\* appliedPatches.sort((a, b) => a.index - b.index): stable insertion sort.
RECURSIVE InsertPatch(_, _)
InsertPatch(sorted, p) ==
  IF sorted = <<>> THEN <<p>>
  ELSE IF p.index < Head(sorted).index THEN <<p>> \o sorted
       ELSE <<Head(sorted)>> \o InsertPatch(Tail(sorted), p)

RECURSIVE SortPatches(_)
SortPatches(ps) ==
  IF ps = <<>> THEN <<>>
  ELSE InsertPatch(SortPatches(SubSeq(ps, 1, Len(ps) - 1)), ps[Len(ps)])

\* The loop over appliedPatches that accumulates the offset.
RECURSIVE PatchOffset(_, _)
PatchOffset(ps, naiveIndex) ==
  IF ps = <<>> THEN 0
  ELSE (IF Head(ps).index < naiveIndex
          THEN Len(Head(ps).change.correctedCodeSnippet) - Head(ps).originalLength
          ELSE 0)
       + PatchOffset(Tail(ps), naiveIndex)

\* A faulty body of changes.forEach that tests the index for truthiness
\* (if (index)) instead of comparing it with -1.
ApplyOneTruthy(st, change) ==
  LET tempContent == st.content
      sorted == SortPatches(st.patches)
      naiveIndex == IndexOf(tempContent, change.originalCodeSnippet, 0)
      offset == PatchOffset(sorted, naiveIndex)
      searchStartIndex == Max2(0, naiveIndex - offset)
      index == IndexOf(tempContent, change.originalCodeSnippet, searchStartIndex)
      before == Substring(tempContent, 0, index)
      after == Substring(tempContent, index + Len(change.originalCodeSnippet),
                         Len(tempContent))
  IN  IF index # 0
        THEN [content |-> before \o change.correctedCodeSnippet \o after,
              patches |-> Append(sorted,
                                 [index |-> index,
                                  originalLength |-> Len(change.originalCodeSnippet),
                                  change |-> change]),
              applied |-> Append(st.applied, change),
              failed |-> st.failed]
        ELSE [content |-> st.content,
              patches |-> sorted,
              applied |-> st.applied,
              failed |-> Append(st.failed,
                                [change |-> change, reason |-> SNIPPET_NOT_FOUND])]

\* One iteration of changes.forEach(change => ...) for one file
\* (src/App.tsx:331-361).  st = [content, patches, applied, failed].
ApplyOne(st, change) ==
  LET tempContent == st.content
      sorted == SortPatches(st.patches)
      naiveIndex == IndexOf(tempContent, change.originalCodeSnippet, 0)
      offset == PatchOffset(sorted, naiveIndex)
      searchStartIndex == Max2(0, naiveIndex - offset)
      index == IndexOf(tempContent, change.originalCodeSnippet, searchStartIndex)
      before == Substring(tempContent, 0, index)
      after == Substring(tempContent, index + Len(change.originalCodeSnippet),
                         Len(tempContent))
  IN  IF index # -1
        THEN [content |-> before \o change.correctedCodeSnippet \o after,
              patches |-> Append(sorted,
                                 [index |-> index,
                                  originalLength |-> Len(change.originalCodeSnippet),
                                  change |-> change]),
              applied |-> Append(st.applied, change),
              failed |-> st.failed]
        ELSE [content |-> st.content,
              patches |-> sorted,
              applied |-> st.applied,
              failed |-> Append(st.failed,
                                [change |-> change, reason |-> SNIPPET_NOT_FOUND])]

\* The state of one file's loop after its first k changes.
RECURSIVE ApplyPrefix(_, _, _)
ApplyPrefix(content, changes, k) ==
  IF k = 0
    THEN [content |-> content, patches |-> <<>>, applied |-> <<>>, failed |-> <<>>]
    ELSE ApplyOne(ApplyPrefix(content, changes, k - 1), changes[k])

\* changes.forEach over all the changes of one file.
ApplyToContent(content, changes) == ApplyPrefix(content, changes, Len(changes))

\* Keys of changesByFile in insertion order (first appearance of a fileName).
RECURSIVE FileNamesInOrder(_)
FileNamesInOrder(changes) ==
  IF changes = <<>> THEN <<>>
  ELSE LET rest == FileNamesInOrder(SubSeq(changes, 1, Len(changes) - 1))
           name == changes[Len(changes)].fileName
       IN  IF \E i \in 1..Len(rest) : rest[i] = name THEN rest ELSE Append(rest, name)

\* changesByFile.get(fileName)
ChangesOfFile(changes, fileName) ==
  SelectSeq(changes, LAMBDA c : c.fileName = fileName)

\* fileList.findIndex(f => f.name === fileName), 1-based, 0 when absent.
FindIndex(files, fileName) ==
  LET hits == {i \in 1..Len(files) : files[i].name = fileName}
  IN  IF hits = {} THEN 0 ELSE Min(hits)

\* A faulty handling that reports none of the changes of an unknown file.
AsFailedReportingNone(changes) == <<>>

AsFailed(changes) ==
  [i \in 1..Len(changes) |-> [change |-> changes[i], reason |-> SNIPPET_NOT_FOUND]]

\* The body of changesByFile.forEach((changes, fileName) => ...)
\* acc = [lib, fe, failed, applied].
ApplyFileGroup(acc, changes, fileName) ==
  LET isLibraryFile == FindIndex(acc.lib, fileName) # 0
      fileList == IF isLibraryFile THEN acc.lib ELSE acc.fe
      fileIndex == FindIndex(fileList, fileName)
  IN  IF fileIndex = 0
        THEN [acc EXCEPT !.failed = @ \o AsFailed(changes)]
        ELSE LET r == ApplyToContent(fileList[fileIndex].content, changes)
                 changesCount == CountOrZero(fileList[fileIndex].changesCount)
                                 + Len(r.applied)
                 newFile == [name |-> fileList[fileIndex].name,
                             content |-> r.content,
                             changesCount |-> changesCount]
                 newList == [fileList EXCEPT ![fileIndex] = newFile]
             IN  [lib |-> IF isLibraryFile THEN newList ELSE acc.lib,
                  fe |-> IF isLibraryFile THEN acc.fe ELSE newList,
                  failed |-> acc.failed \o r.failed,
                  applied |-> acc.applied \o r.applied]

RECURSIVE ApplyGroups(_, _, _)
ApplyGroups(acc, allChanges, names) ==
  IF names = <<>> THEN acc
  ELSE ApplyGroups(ApplyFileGroup(acc, ChangesOfFile(allChanges, Head(names)), Head(names)),
                   allChanges, Tail(names))

\* applyChangesToFiles(allChanges, currentLibraryFiles, currentFrontendFiles).
\* The returned record also carries successfullyAppliedChanges (applied).
applyChangesToFiles(allChanges, currentLibraryFiles, currentFrontendFiles) ==
  LET r == ApplyGroups([lib |-> currentLibraryFiles, fe |-> currentFrontendFiles,
                        failed |-> <<>>, applied |-> <<>>],
                       allChanges, FileNamesInOrder(allChanges))
  IN  [newLibraryFiles |-> r.lib, newFrontendFiles |-> r.fe,
       failedChanges |-> r.failed, applied |-> r.applied]

\* ------------------------------------------------------------------------
\* applyChangesToFiles of the earlier revision (src/unnamed/part_005:
\* 284-349): every snippet is located in the original content, overlapping
\* patches are discarded, the rest is applied from the right.
\* ------------------------------------------------------------------------

\* changes.map(...).filter(p => p !== null) and the failures it pushes
\* (part_005:308-319); a change with an empty snippet yields no patch and
\* no failure.
RECURSIVE LocatePatches(_, _)
LocatePatches(content, changes) ==
  IF changes = <<>> THEN [patches |-> <<>>, failed |-> <<>>]
  ELSE LET rest == LocatePatches(content, SubSeq(changes, 1, Len(changes) - 1))
           change == changes[Len(changes)]
           index == IndexOf(content, change.originalCodeSnippet, 0)
       IN  IF change.originalCodeSnippet = <<>> THEN rest
           ELSE IF index = -1
             THEN [rest EXCEPT !.failed =
                     Append(@, [change |-> change, reason |-> SNIPPET_NOT_FOUND])]
             ELSE [rest EXCEPT !.patches =
                     Append(@, [index |-> index,
                                originalLength |-> Len(change.originalCodeSnippet),
                                change |-> change])]

\* The loop that discards the latter of two overlapping patches
\* (part_005:323-332); ps is sorted by index.
RECURSIVE DropOverlaps(_)
DropOverlaps(ps) ==
  IF Len(ps) <= 1 THEN [kept |-> ps, dropped |-> <<>>]
  ELSE IF ps[1].index + ps[1].originalLength > ps[2].index
    THEN LET r == DropOverlaps(<<ps[1]>> \o SubSeq(ps, 3, Len(ps)))
         IN  [kept |-> r.kept, dropped |-> <<ps[2]>> \o r.dropped]
    ELSE LET r == DropOverlaps(Tail(ps))
         IN  [kept |-> <<ps[1]>> \o r.kept, dropped |-> r.dropped]

\* A faulty order of application: leftmost patch first.
SortPatchesLeftmostFirst(ps) == SortPatches(ps)

\* patches.sort((a, b) => b.index - a.index) (part_005:334): stable.
RECURSIVE InsertPatchDescending(_, _)
InsertPatchDescending(sorted, p) ==
  IF sorted = <<>> THEN <<p>>
  ELSE IF p.index > Head(sorted).index THEN <<p>> \o sorted
       ELSE <<Head(sorted)>> \o InsertPatchDescending(Tail(sorted), p)

RECURSIVE SortPatchesDescending(_)
SortPatchesDescending(ps) ==
  IF ps = <<>> THEN <<>>
  ELSE InsertPatchDescending(SortPatchesDescending(SubSeq(ps, 1, Len(ps) - 1)),
                             ps[Len(ps)])

\* for (const patch of patches) { currentContent = ... } (part_005:336-339)
RECURSIVE SplicePatches(_, _)
SplicePatches(content, ps) ==
  IF ps = <<>> THEN content
  ELSE SplicePatches(Substring(content, 0, Head(ps).index)
                       \o Head(ps).change.correctedCodeSnippet
                       \o Substring(content, Head(ps).index + Head(ps).originalLength,
                                    Len(content)),
                     Tail(ps))

\* The body of for (const [fileName, changes] of changesByFile.entries())
\* (part_005:298-342).  acc = [lib, fe, failed, applied, overlapped].
PatchFileGroup(acc, changes, fileName) ==
  LET inLib == FindIndex(acc.lib, fileName)
      inFe == FindIndex(acc.fe, fileName)
      fileToUpdate == IF inLib # 0 THEN acc.lib[inLib] ELSE acc.fe[inFe]
  IN  IF inLib = 0 /\ inFe = 0
        THEN [acc EXCEPT !.failed = @ \o AsFailed(changes)]
        ELSE LET located == LocatePatches(fileToUpdate.content, changes)
                 r == DropOverlaps(SortPatches(located.patches))
                 patches == SortPatchesDescending(r.kept)
                 updated == [fileToUpdate EXCEPT
                               !.content = SplicePatches(fileToUpdate.content, patches)]
             IN  [lib |-> IF inLib # 0 THEN [acc.lib EXCEPT ![inLib] = updated]
                                       ELSE acc.lib,
                  fe |-> IF inLib # 0 THEN acc.fe
                                      ELSE [acc.fe EXCEPT ![inFe] = updated],
                  failed |-> (acc.failed \o located.failed)
                               \o [i \in 1..Len(r.dropped) |->
                                     [change |-> r.dropped[i].change,
                                      reason |-> SNIPPET_NOT_FOUND]],
                  applied |-> acc.applied
                                \o [i \in 1..Len(patches) |-> patches[i].change],
                  overlapped |-> acc.overlapped
                                   \o [i \in 1..Len(r.dropped) |-> r.dropped[i].change]]

RECURSIVE PatchGroups(_, _, _)
PatchGroups(acc, allChanges, names) ==
  IF names = <<>> THEN acc
  ELSE PatchGroups(PatchFileGroup(acc, ChangesOfFile(allChanges, Head(names)),
                                  Head(names)),
                   allChanges, Tail(names))

\* file.changesCount = (file.changesCount || 0) + 1 for every file that has
\* an applied change (part_005:344-346).
CountChangedFiles(files, applied) ==
  [i \in 1..Len(files) |->
     IF \E k \in 1..Len(applied) : applied[k].fileName = files[i].name
       THEN [files[i] EXCEPT !.changesCount = CountOrZero(@) + 1]
       ELSE files[i]]

\* applyChangesToFiles of the earlier revision.  The returned record also
\* carries the applied changes and those discarded for overlap.
applyChangesToFilesByPatches(allChanges, currentLibraryFiles, currentFrontendFiles) ==
  LET r == PatchGroups([lib |-> currentLibraryFiles, fe |-> currentFrontendFiles,
                        failed |-> <<>>, applied |-> <<>>, overlapped |-> <<>>],
                       allChanges, FileNamesInOrder(allChanges))
  IN  [newLibraryFiles |-> CountChangedFiles(r.lib, r.applied),
       newFrontendFiles |-> CountChangedFiles(r.fe, r.applied),
       failedChanges |-> r.failed, applied |-> r.applied,
       overlapped |-> r.overlapped]

\* ------------------------------------------------------------------------
\* State
\* ------------------------------------------------------------------------
\* A handler may run whenever the component that carries its control is
\* mounted and the control is not disabled; which panel of the analysis view
\* is on screen is not a guard.  Chat, file viewer, download, help and
\* language handlers touch none of the state below and are left out.
VARIABLES
  libraryFiles,               \* useState<UploadedFile[]>      (src/App.tsx:33)
  frontendFiles,              \* useState<UploadedFile[]>      (src/App.tsx:34)
  analysisResult,             \* useState<Analysis | null>     (src/App.tsx:36)
  isAnalyzing,                \* src/App.tsx:37
  error,                      \* src/App.tsx:39, Null or Some([kind, files])
  isRefactorModalOpen,        \* src/App.tsx:43
  currentRefactor,            \* src/App.tsx:44
  isRefactoring,              \* src/App.tsx:45
  isApplyingChanges,          \* src/App.tsx:46
  refactoringRecommendation,  \* src/App.tsx:47
  autoReanalyze,              \* src/App.tsx:56
  undoStack,                  \* src/App.tsx:57
  selectedFixes,              \* src/App.tsx:59, the fixes in insertion order
  memo,          \* the undoStack seen by the memoised handlers (useCallback)
  confirmTask,   \* handleConfirmRefactor suspended at an await, or Null
  batchTask,     \* handleBatchApply suspended at an await, or Null
  refactorCalls, \* number of refactorCode calls in flight
  analyzeCalls,  \* the analyzeGasProject calls in flight (their captured files)
  timers,        \* pending setTimeout(() => handleAnalyze(), 500), oldest first
  scenario,      \* which inputs the environment draws from; never changes
  op,            \* history variable: the step taken last
  hist,          \* history variable: pre-apply states of the live commits
  callChanges,   \* argument of the direct call of applyChangesToFiles
  callResult,    \* value returned by that call, Null before any call
  heap,              \* the arrays and file objects in memory, by reference
  libraryFilesRef,   \* the array libraryFiles refers to (0: not followed)
  frontendFilesRef,  \* the array frontendFiles refers to (0: not followed)
  undoStackRefs,     \* the arrays the snapshots of undoStack refer to
  geminiCall         \* one invocation of handleGeminiCallWithRetry (geminiService.ts:254)

appVars ==
  <<libraryFiles, frontendFiles, analysisResult, isAnalyzing, error,
    isRefactorModalOpen, currentRefactor, isRefactoring, isApplyingChanges,
    refactoringRecommendation, autoReanalyze, undoStack, selectedFixes, memo,
    confirmTask, batchTask, refactorCalls, analyzeCalls, timers, scenario,
    op, hist>>

\* The state seen as references into memory; only SpecReferences follows it.
refVars == <<heap, libraryFilesRef, frontendFilesRef, undoStackRefs>>

vars == <<appVars, callChanges, callResult, refVars, geminiCall>>

\* ------------------------------------------------------------------------
\* Inputs of the pure-function specification
\* ------------------------------------------------------------------------
Alphabet == {"a", "b"}
LibName == "Code.gs"
FeName == "index.html"
MissingName == "Gone.gs"
FeContent == <<"c", "d">>

File(name, content, count) == [name |-> name, content |-> content, changesCount |-> count]
Change(fileName, orig, corr) ==
  [fileName |-> fileName, originalCodeSnippet |-> orig, correctedCodeSnippet |-> corr]

InputContents == SeqsUpTo(Alphabet, MaxContentLen)
CorrectedAlphabet == {"b"}
LibChanges ==
  {Change(LibName, o, c) : o \in SeqsUpTo(Alphabet, MaxSnippetLen),
                           c \in SeqsUpTo(CorrectedAlphabet, MaxCorrectedLen)}
OtherChanges ==
  {Change(FeName, <<"c">>, <<"e">>), Change(FeName, <<"e">>, <<"c">>),
   Change(MissingName, <<"a">>, <<"b">>)}
InputChanges == LibChanges \cup OtherChanges
InputChangeLists == SeqsUpTo(InputChanges, MaxChanges)

\* ------------------------------------------------------------------------
\* Values of the application state (src/types.ts)
\* ------------------------------------------------------------------------
ChangelogName == "CHANGELOG.md"

\* name.toUpperCase() on the file names of the model
UpperName(name) ==
  CASE name = ChangelogName -> "CHANGELOG.MD"
    [] name = LibName -> "CODE.GS"
    [] name = FeName -> "INDEX.HTML"
    [] OTHER -> name

RefactorResult(main, related) == [mainChange |-> main, relatedChanges |-> related]
BatchRefactorResult(changes) == [changes |-> changes]

\* A recommendation as the analysis returns it: nothing applied yet.
FreshRecommendation ==
  [appliedSuggestionIndex |-> Undefined, appliedRefactorResult |-> Null]

FileAnalysisOf(file) ==
  [fileName |-> file.name, recommendations |-> <<FreshRecommendation>>]

\* The Analysis analyzeGasProject returns for the given files: one
\* FileAnalysis per file, each with one recommendation.
AnalysisOf(lib, fe) ==
  [libraryProject |-> [i \in 1..Len(lib) |-> FileAnalysisOf(lib[i])],
   frontendProject |-> [i \in 1..Len(fe) |-> FileAnalysisOf(fe[i])]]

\* A faulty snapshot that leaves the analysis out.
UndoStateWithoutAnalysis(lib, fe, analysis) ==
  [libraryFiles |-> lib, frontendFiles |-> fe, analysisResult |-> Null]

\* { libraryFiles, frontendFiles, analysisResult } (src/App.tsx:432, 489, 580)
UndoState(lib, fe, analysis) ==
  [libraryFiles |-> lib, frontendFiles |-> fe, analysisResult |-> analysis]

Error(kind, files) == Some([kind |-> kind, files |-> files])

Fix(fileName) == [fileName |-> fileName, recIndex |-> 0, suggestionIndex |-> 0]

\* ------------------------------------------------------------------------
\* Bounds and inputs of the application specifications
\* ------------------------------------------------------------------------
\* A new apply starts only while every changesCount is below the cap.
MaxCountWide == 1
MaxCountHistory == 12
\* In the wide scenario a handler that pushes starts only below this depth.
MaxStackWide == 2
\* Calls of one kind in flight at once.
MaxPendingCalls == 1
MaxHeapCells == 24       \* cells of memory allocated in SpecReferences
MaxStackReferences == 3  \* snapshots on the stack in SpecReferences

CountCap == IF scenario = "history" THEN MaxCountHistory ELSE MaxCountWide
StackCap == IF scenario = "history" THEN MAX_UNDO_STACK_SIZE + 1 ELSE MaxStackWide

LibUpload == <<File(LibName, <<"a">>, Undefined)>>
FeUploads ==
  {<<File(FeName, FeContent, Undefined)>>,
   <<File(FeName, FeContent, Undefined), File(ChangelogName, <<>>, Undefined)>>}

AtoB == Change(LibName, <<"a">>, <<"b">>)
BtoA == Change(LibName, <<"b">>, <<"a">>)
FeMiss == Change(FeName, <<"z">>, <<"e">>)
FeHit == Change(FeName, <<"c">>, <<"e">>)

\* What refactorCode and correctRefactorResult may return.
RefactorPool ==
  IF scenario = "history"
    THEN {RefactorResult(AtoB, <<>>), RefactorResult(BtoA, <<>>)}
    ELSE {RefactorResult(AtoB, <<>>), RefactorResult(AtoB, <<FeMiss>>),
          RefactorResult(BtoA, <<FeHit>>)}

\* What batchRefactorCode may return.
BatchPool ==
  {BatchRefactorResult(<<AtoB>>), BatchRefactorResult(<<AtoB, FeMiss>>),
   BatchRefactorResult(<<FeMiss>>), BatchRefactorResult(<<BtoA, FeHit>>),
   BatchRefactorResult(<<>>)}

\* What updateChangelog may return.
ChangelogPool == {<<"n">>}

\* The result handleApplyFix stores when refactorCode rejects
\* (src/App.tsx:290-294).
ErrorRefactorResult == RefactorResult(Change("", <<"E">>, <<"m">>), <<>>)

\* The recommendations the user acts on.
FixFiles == {LibName}

\* ------------------------------------------------------------------------
\* Helpers of the handlers
\* ------------------------------------------------------------------------

\* A faulty pushToUndoStack that drops the new snapshot on overflow.
pushToUndoStackDropNewest(stack, state) ==
  LET newStack == Append(stack, state)
  IN  IF Len(newStack) > MAX_UNDO_STACK_SIZE
        THEN SubSeq(newStack, 1, Len(newStack) - 1)
        ELSE newStack

\* pushToUndoStack (src/App.tsx:74-80); stack is the undoStack of the render
\* the calling handler was created in.  The value is what setUndoStack gets.
pushToUndoStack(stack, state) ==
  LET newStack == Append(stack, state)
  IN  IF Len(newStack) > MAX_UNDO_STACK_SIZE THEN Tail(newStack) ELSE newStack

\* A faulty test that also takes a stack of one snapshot for empty.
StackEmptyBelowTwo(stack) == Len(stack) <= 1

\* undoStack.length === 0 (src/App.tsx:567)
StackEmpty(stack) == Len(stack) = 0

\* A faulty choice of the snapshot to restore: the oldest one.
LastStateOldest(stack) == stack[1]

\* undoStack[undoStack.length - 1] (src/App.tsx:569)
LastState(stack) == stack[Len(stack)]

\* [result.mainChange, ...result.relatedChanges] (src/App.tsx:400)
AllChanges(result) == <<result.mainChange>> \o result.relatedChanges

\* A faulty test that only sees a failure when every change failed.
HasFailuresOnlyAll(failedChanges, allChanges) ==
  Len(failedChanges) = Len(allChanges)

\* failedChanges.length > 0 (src/App.tsx:405)
HasFailures(failedChanges, allChanges) == Len(failedChanges) > 0

\* A faulty limit test that allows one more attempt.
AttemptsExhaustedLate(attempt) == attempt > MAX_ATTEMPTS

\* attempt >= MAX_ATTEMPTS (src/App.tsx:406)
AttemptsExhausted(attempt) == attempt >= MAX_ATTEMPTS

\* A faulty list of failing files that names none.
FailedFileNamesNone(failedChanges) == <<>>

\* failedChanges.map(f => f.change.fileName) (src/App.tsx:407)
FailedFileNames(failedChanges) ==
  [i \in 1..Len(failedChanges) |-> failedChanges[i].change.fileName]

\* [...new Set(names)] (src/App.tsx:520): first occurrences, in order.
RECURSIVE Dedupe(_)
Dedupe(names) ==
  IF names = <<>> THEN <<>>
  ELSE LET rest == Dedupe(SubSeq(names, 1, Len(names) - 1))
           last == names[Len(names)]
       IN  IF \E i \in 1..Len(rest) : rest[i] = last THEN rest ELSE Append(rest, last)

\* project.find(p => p.fileName === fileName), 1-based, 0 when absent.
FindFileAnalysis(project, fileName) ==
  LET hits == {i \in 1..Len(project) : project[i].fileName = fileName}
  IN  IF hits = {} THEN 0 ELSE Min(hits)

\* The recommendation the fix names, as a sequence: <<rec>> or <<>>.
RecommendationOf(analysis, fix) ==
  LET isLibFile == FindFileAnalysis(analysis.libraryProject, fix.fileName) # 0
      project == IF isLibFile THEN analysis.libraryProject
                              ELSE analysis.frontendProject
      i == FindFileAnalysis(project, fix.fileName)
  IN  IF i = 0 \/ fix.recIndex + 1 > Len(project[i].recommendations)
        THEN <<>>
        ELSE <<project[i].recommendations[fix.recIndex + 1]>>

\* The analysis with the recommendation the fix names replaced by newRec
\* (unchanged when there is no such recommendation).
WithRecommendation(analysis, fix, newRec) ==
  LET isLibFile == FindFileAnalysis(analysis.libraryProject, fix.fileName) # 0
      project == IF isLibFile THEN analysis.libraryProject
                              ELSE analysis.frontendProject
      i == FindFileAnalysis(project, fix.fileName)
      newProject == [project EXCEPT ![i].recommendations[fix.recIndex + 1] = newRec]
  IN  IF RecommendationOf(analysis, fix) = <<>> THEN analysis
      ELSE IF isLibFile THEN [analysis EXCEPT !.libraryProject = newProject]
                        ELSE [analysis EXCEPT !.frontendProject = newProject]

\* src/App.tsx:436-447: the applied suggestion and its result are recorded.
MarkApplied(analysis, fix, result) ==
  WithRecommendation(analysis, fix,
    [appliedSuggestionIndex |-> fix.suggestionIndex,
     appliedRefactorResult |-> Some(result)])

\* src/App.tsx:531-538: each selected fix is marked, in selection order.
RECURSIVE MarkFixes(_, _)
MarkFixes(analysis, fixes) ==
  IF fixes = <<>> THEN analysis
  ELSE LET fix == Head(fixes)
           rec == RecommendationOf(analysis, fix)
           marked == IF rec = <<>> THEN analysis
                     ELSE WithRecommendation(analysis, fix,
                            [rec[1] EXCEPT !.appliedSuggestionIndex = fix.suggestionIndex])
       IN  MarkFixes(marked, Tail(fixes))

\* src/App.tsx:611-619: both marks are deleted.
Unmark(analysis, fix) == WithRecommendation(analysis, fix, FreshRecommendation)

\* change with its two snippets swapped (src/App.tsx:600-604)
Reversed(change) ==
  Change(change.fileName, change.correctedCodeSnippet, change.originalCodeSnippet)

\* allChangesToUndo.map(change => ({ ...change, ...swapped }))
ReversedAll(changes) == [i \in 1..Len(changes) |-> Reversed(changes[i])]

\* allFiles.find(f => f.name.toUpperCase() === 'CHANGELOG.MD') exists
HasChangelog(lib, fe) ==
  \/ \E i \in 1..Len(lib) : UpperName(lib[i].name) = "CHANGELOG.MD"
  \/ \E i \in 1..Len(fe) : UpperName(fe[i].name) = "CHANGELOG.MD"

\* libraryFiles.some(f => f.name.toUpperCase() === 'CHANGELOG.MD')
ChangelogInLibrary(lib) ==
  \E i \in 1..Len(lib) : UpperName(lib[i].name) = "CHANGELOG.MD"

\* prev.map(f => f.name.toUpperCase() === 'CHANGELOG.MD'
\*                 ? { ...f, content: newChangelogContent } : f)
WithChangelogContent(files, content) ==
  [i \in 1..Len(files) |->
     IF UpperName(files[i].name) = "CHANGELOG.MD"
       THEN [files[i] EXCEPT !.content = content]
       ELSE files[i]]

\* prev.filter((_, index) => index !== indexToRemove), 1-based here
RemoveAt(files, k) ==
  [i \in 1..(Len(files) - 1) |-> IF i < k THEN files[i] ELSE files[i + 1]]

\* Every changesCount is below the cap of the scenario.
FilesBelowCap ==
  /\ \A i \in 1..Len(libraryFiles) : CountOrZero(libraryFiles[i].changesCount) < CountCap
  /\ \A i \in 1..Len(frontendFiles) : CountOrZero(frontendFiles[i].changesCount) < CountCap

\* ------------------------------------------------------------------------
\* History variables and the memoised handlers
\* ------------------------------------------------------------------------
Snapshot ==
  [libraryFiles |-> libraryFiles, frontendFiles |-> frontendFiles,
   analysisResult |-> analysisResult, undoStack |-> undoStack]

EmptySnapshot ==
  [libraryFiles |-> <<>>, frontendFiles |-> <<>>, analysisResult |-> Null,
   undoStack |-> <<>>]

NoPrev == [name |-> "none", outcome |-> "none", start |-> EmptySnapshot, clean |-> TRUE]

\* The step taken last: the handler it belongs to, how that handler stands
\* after it, the state in which the handler was invoked, whether no other
\* handler has run since that invocation, and the application attempts made.
OpOf(name, outcome, start, clean, tried) ==
  [name |-> name, outcome |-> outcome, start |-> start, clean |-> clean,
   tried |-> tried, prev |-> NoPrev]

NoteOp(name, outcome, start, clean, tried) ==
  op' = OpOf(name, outcome, start, clean, tried)

\* A step of a handler no claim follows.
NoteStep == op' = OpOf("step", "done", EmptySnapshot, TRUE, <<>>)

\* A suspended handler sees that another handler has run.
Disturbed(task) ==
  IF task = Null THEN Null ELSE Some([task[1] EXCEPT !.clean = FALSE])

Foreign ==
  /\ confirmTask' = Disturbed(confirmTask)
  /\ batchTask' = Disturbed(batchTask)

\* hist.log: the states in which the live committed applies were invoked,
\* oldest first (an undo removes the newest); hist.evicted: how many of its
\* oldest entries the bounded stack has dropped; hist.streak: committed
\* applies since the last undo; hist.pure: so far the stack was changed only
\* by undisturbed committed applies and by undos.  The log is kept in the
\* long histories only.
HistNew == [log |-> <<>>, evicted |-> 0, streak |-> 0, pure |-> TRUE]
HistImpure ==
  IF scenario = "history"
    THEN [log |-> <<>>, evicted |-> 0, streak |-> 0, pure |-> FALSE]
    ELSE HistNew

HistCommit(start, clean) ==
  IF scenario # "history" THEN hist
  ELSE IF ~hist.pure \/ ~clean THEN HistImpure
  ELSE [log |-> Append(hist.log, UndoState(start.libraryFiles, start.frontendFiles,
                                           start.analysisResult)),
        evicted |-> IF Len(hist.log) - hist.evicted >= MAX_UNDO_STACK_SIZE
                      THEN hist.evicted + 1 ELSE hist.evicted,
        streak |-> hist.streak + 1,
        pure |-> TRUE]

HistUndo ==
  IF scenario # "history" THEN hist
  ELSE IF ~hist.pure THEN HistImpure
  ELSE IF Len(hist.log) = hist.evicted THEN [hist EXCEPT !.streak = 0]
  ELSE [hist EXCEPT !.log = SubSeq(hist.log, 1, Len(hist.log) - 1), !.streak = 0]

\* Dependency lists of the useCallback handlers that call pushToUndoStack,
\* restricted to the state of the model.  handleAnalyze, itself a
\* dependency of the first two, depends on undoStack.length.
DepsConfirm ==   \* src/App.tsx:468
  <<libraryFiles, frontendFiles, analysisResult, refactoringRecommendation,
    autoReanalyze, Len(undoStack)>>
DepsBatch ==     \* src/App.tsx:564
  <<selectedFixes, libraryFiles, frontendFiles, analysisResult, autoReanalyze,
    Len(undoStack)>>
DepsUndoFix ==   \* src/App.tsx:622
  <<analysisResult, libraryFiles, frontendFiles>>

\* The render after a step: a memoised handler is created anew, and then
\* sees the new undoStack, exactly when one of its dependencies changed.
\* fresh: the step stored a newly built array or object in libraryFiles,
\* frontendFiles or analysisResult (a new reference even if equal in value).
Render(fresh) ==
  memo' = [confirm |-> IF fresh \/ DepsConfirm' # DepsConfirm
                         THEN undoStack' ELSE memo.confirm,
           batch |-> IF fresh \/ DepsBatch' # DepsBatch
                       THEN undoStack' ELSE memo.batch,
           undoFix |-> IF fresh \/ DepsUndoFix' # DepsUndoFix
                         THEN undoStack' ELSE memo.undoFix]

\* ------------------------------------------------------------------------
\* Initial states
\* ------------------------------------------------------------------------
InitApp(lib, fe, analysis, scen) ==
  /\ libraryFiles = lib
  /\ frontendFiles = fe
  /\ analysisResult = analysis
  /\ isAnalyzing = FALSE
  /\ error = Null
  /\ isRefactorModalOpen = FALSE
  /\ currentRefactor = Null
  /\ isRefactoring = FALSE
  /\ isApplyingChanges = FALSE
  /\ refactoringRecommendation = Null
  /\ autoReanalyze = FALSE
  /\ undoStack = <<>>
  /\ selectedFixes = <<>>
  /\ memo = [confirm |-> <<>>, batch |-> <<>>, undoFix |-> <<>>]
  /\ confirmTask = Null
  /\ batchTask = Null
  /\ refactorCalls = 0
  /\ analyzeCalls = <<>>
  /\ timers = <<>>
  /\ scenario = scen
  /\ op = OpOf("init", "done", EmptySnapshot, TRUE, <<>>)
  /\ hist = HistNew
  /\ callChanges = <<>>
  /\ callResult = Null

\* handleGeminiCallWithRetry is not followed.
NoGeminiCall ==
  geminiCall = [pc |-> "idle", language |-> "en", schema |-> FALSE, retries |-> 0,
                i |-> 0, calls |-> 0, log |-> <<>>, message |-> <<>>]

\* No memory is followed.
InitRefs ==
  /\ NoGeminiCall
  /\ heap = <<>>
  /\ libraryFilesRef = 0
  /\ frontendFilesRef = 0
  /\ undoStackRefs = <<>>

\* ------------------------------------------------------------------------
\* Specification of applyChangesToFiles as a pure function: the files are
\* drawn in the initial state, one action calls the function.
\* ------------------------------------------------------------------------
InitApply ==
  \E c \in InputContents :
    /\ InitApp(<<File(LibName, c, Undefined)>>, <<File(FeName, FeContent, Undefined)>>,
               Null, "apply")
    /\ InitRefs

CallApply ==
  /\ callResult = Null
  /\ \E changes \in InputChangeLists :
       /\ callChanges' = changes
       /\ callResult' = Some(applyChangesToFiles(changes, libraryFiles, frontendFiles))
  /\ UNCHANGED appVars
  /\ UNCHANGED <<refVars, geminiCall>>

NextApply == CallApply

SpecApply == InitApply /\ [][NextApply]_vars

\* failedChanges.filter(f => f.reason === 'SNIPPET_NOT_FOUND'), which the
\* earlier handleConfirmRefactor passes to correctRefactorResult
\* (src/unnamed/part_005:396, 442-444).
SnippetNotFoundFailures(failedChanges) ==
  SelectSeq(failedChanges, LAMBDA f : f.reason = SNIPPET_NOT_FOUND)

\* The earlier revision of applyChangesToFiles as a pure function, on the
\* same inputs.
CallApplyByPatches ==
  /\ callResult = Null
  /\ \E changes \in InputChangeLists :
       /\ callChanges' = changes
       /\ callResult' = Some(applyChangesToFilesByPatches(changes, libraryFiles,
                                                          frontendFiles))
  /\ UNCHANGED appVars
  /\ UNCHANGED <<refVars, geminiCall>>

NextPatches == CallApplyByPatches

SpecPatches == InitApply /\ [][NextPatches]_vars

\* ------------------------------------------------------------------------
\* Handlers: files and analysis.  Uploads, removals, analysis, the
\* re-analysis timer and the changelog update are no steps of Spec and
\* SpecHistory: there the project is uploaded and analysed, has no changelog
\* file, and autoReanalyze keeps its initial value.
\* ------------------------------------------------------------------------

\* clearAnalysisAndChat (src/App.tsx:82-92)
clearAnalysisAndChat ==
  /\ analysisResult' = Null
  /\ error' = Null
  /\ undoStack' = <<>>
  /\ selectedFixes' = <<>>
  /\ hist' = HistNew

\* handleLibraryFilesUploaded (src/App.tsx:94-102), the replacement confirmed
handleLibraryFilesUploaded ==
  /\ libraryFiles' = LibUpload
  /\ clearAnalysisAndChat
  /\ Foreign
  /\ NoteStep
  /\ UNCHANGED <<frontendFiles, isAnalyzing, isRefactorModalOpen, currentRefactor,
                 isRefactoring, isApplyingChanges, refactoringRecommendation,
                 autoReanalyze, refactorCalls, analyzeCalls, timers, scenario,
                 callChanges, callResult>>
  /\ Render(TRUE)
  /\ UNCHANGED <<refVars, geminiCall>>

\* handleFrontendFilesUploaded (src/App.tsx:104-112)
handleFrontendFilesUploaded ==
  /\ \E files \in FeUploads : frontendFiles' = files
  /\ clearAnalysisAndChat
  /\ Foreign
  /\ NoteStep
  /\ UNCHANGED <<libraryFiles, isAnalyzing, isRefactorModalOpen, currentRefactor,
                 isRefactoring, isApplyingChanges, refactoringRecommendation,
                 autoReanalyze, refactorCalls, analyzeCalls, timers, scenario,
                 callChanges, callResult>>
  /\ Render(TRUE)
  /\ UNCHANGED <<refVars, geminiCall>>

\* handleRemoveLibraryFile (src/App.tsx:114-117)
handleRemoveLibraryFile ==
  /\ \E k \in 1..Len(libraryFiles) : libraryFiles' = RemoveAt(libraryFiles, k)
  /\ clearAnalysisAndChat
  /\ Foreign
  /\ NoteStep
  /\ UNCHANGED <<frontendFiles, isAnalyzing, isRefactorModalOpen, currentRefactor,
                 isRefactoring, isApplyingChanges, refactoringRecommendation,
                 autoReanalyze, refactorCalls, analyzeCalls, timers, scenario,
                 callChanges, callResult>>
  /\ Render(TRUE)
  /\ UNCHANGED <<refVars, geminiCall>>

\* handleRemoveFrontendFile (src/App.tsx:119-122)
handleRemoveFrontendFile ==
  /\ \E k \in 1..Len(frontendFiles) : frontendFiles' = RemoveAt(frontendFiles, k)
  /\ clearAnalysisAndChat
  /\ Foreign
  /\ NoteStep
  /\ UNCHANGED <<libraryFiles, isAnalyzing, isRefactorModalOpen, currentRefactor,
                 isRefactoring, isApplyingChanges, refactoringRecommendation,
                 autoReanalyze, refactorCalls, analyzeCalls, timers, scenario,
                 callChanges, callResult>>
  /\ Render(TRUE)
  /\ UNCHANGED <<refVars, geminiCall>>

\* The synchronous part of handleAnalyze (src/App.tsx:141-187) run by a
\* handler created when the files were lib and fe.  The early return at
\* 142-145 is never taken: the button is disabled without files, and a
\* timer is only set by a commit, which needs a file.
StartAnalyze(lib, fe) ==
  /\ isAnalyzing' = TRUE
  /\ error' = Null
  /\ analysisResult' = Null
  /\ undoStack' = <<>>
  /\ hist' = HistNew
  /\ analyzeCalls' = Append(analyzeCalls, [libraryFiles |-> lib, frontendFiles |-> fe])
  /\ Foreign
  /\ NoteStep

\* handleAnalyze from its button (src/App.tsx:728)
handleAnalyze ==
  /\ ~isAnalyzing
  /\ libraryFiles # <<>> \/ frontendFiles # <<>>
  /\ Len(analyzeCalls) < MaxPendingCalls
  /\ StartAnalyze(libraryFiles, frontendFiles)
  /\ UNCHANGED <<libraryFiles, frontendFiles, isRefactorModalOpen, currentRefactor,
                 isRefactoring, isApplyingChanges, refactoringRecommendation,
                 autoReanalyze, selectedFixes, refactorCalls, timers, scenario,
                 callChanges, callResult>>
  /\ Render(FALSE)
  /\ UNCHANGED <<refVars, geminiCall>>

\* setTimeout(() => handleAnalyze(), 500) fires (src/App.tsx:465, 554): the
\* handleAnalyze of the render in which the apply handler was created.
analysisTimerFires ==
  /\ timers # <<>>
  /\ Len(analyzeCalls) < MaxPendingCalls
  /\ StartAnalyze(Head(timers).libraryFiles, Head(timers).frontendFiles)
  /\ timers' = Tail(timers)
  /\ UNCHANGED <<libraryFiles, frontendFiles, isRefactorModalOpen, currentRefactor,
                 isRefactoring, isApplyingChanges, refactoringRecommendation,
                 autoReanalyze, selectedFixes, refactorCalls, scenario,
                 callChanges, callResult>>
  /\ Render(FALSE)
  /\ UNCHANGED <<refVars, geminiCall>>

\* analyzeGasProject resolves (src/App.tsx:187-195, 212-215)
analyzeGasProjectResolves ==
  /\ \E k \in 1..Len(analyzeCalls) :
       /\ analysisResult' = Some(AnalysisOf(analyzeCalls[k].libraryFiles,
                                            analyzeCalls[k].frontendFiles))
       /\ analyzeCalls' = RemoveAt(analyzeCalls, k)
  /\ isAnalyzing' = FALSE
  /\ Foreign
  /\ NoteStep
  /\ UNCHANGED <<libraryFiles, frontendFiles, error, isRefactorModalOpen,
                 currentRefactor, isRefactoring, isApplyingChanges,
                 refactoringRecommendation, autoReanalyze, undoStack, selectedFixes,
                 refactorCalls, timers, scenario, hist, callChanges, callResult>>
  /\ Render(TRUE)
  /\ UNCHANGED <<refVars, geminiCall>>

\* analyzeGasProject rejects (src/App.tsx:209-215)
analyzeGasProjectRejects ==
  /\ \E k \in 1..Len(analyzeCalls) : analyzeCalls' = RemoveAt(analyzeCalls, k)
  /\ error' = Error("analysisError", <<>>)
  /\ isAnalyzing' = FALSE
  /\ Foreign
  /\ NoteStep
  /\ UNCHANGED <<libraryFiles, frontendFiles, analysisResult, isRefactorModalOpen,
                 currentRefactor, isRefactoring, isApplyingChanges,
                 refactoringRecommendation, autoReanalyze, undoStack, selectedFixes,
                 refactorCalls, timers, scenario, hist, callChanges, callResult>>
  /\ Render(FALSE)
  /\ UNCHANGED <<refVars, geminiCall>>

\* setAutoReanalyze(e.target.checked) (src/App.tsx:741)
setAutoReanalyze ==
  /\ autoReanalyze' = ~autoReanalyze
  /\ Foreign
  /\ NoteStep
  /\ UNCHANGED <<libraryFiles, frontendFiles, analysisResult, isAnalyzing, error,
                 isRefactorModalOpen, currentRefactor, isRefactoring,
                 isApplyingChanges, refactoringRecommendation, undoStack,
                 selectedFixes, refactorCalls, analyzeCalls, timers, scenario,
                 hist, callChanges, callResult>>
  /\ Render(FALSE)
  /\ UNCHANGED <<refVars, geminiCall>>

\* setError(null) from the error banner (src/App.tsx:756)
dismissError ==
  /\ error # Null
  /\ error' = Null
  /\ Foreign
  /\ NoteStep
  /\ UNCHANGED <<libraryFiles, frontendFiles, analysisResult, isAnalyzing,
                 isRefactorModalOpen, currentRefactor, isRefactoring,
                 isApplyingChanges, refactoringRecommendation, autoReanalyze,
                 undoStack, selectedFixes, refactorCalls, analyzeCalls, timers,
                 scenario, hist, callChanges, callResult>>
  /\ Render(FALSE)
  /\ UNCHANGED <<refVars, geminiCall>>

\* ------------------------------------------------------------------------
\* Handlers: the single-fix path
\* ------------------------------------------------------------------------

\* The analysis on screen holds the recommendation the fix names.
Recommended(fix) ==
  /\ analysisResult # Null
  /\ RecommendationOf(analysisResult[1], fix) # <<>>

\* handleApplyFix up to its await (src/App.tsx:263-277)
handleApplyFix ==
  /\ refactorCalls < MaxPendingCalls
  /\ \E fileName \in FixFiles :
       /\ Recommended(Fix(fileName))
       /\ refactoringRecommendation' = Some(Fix(fileName))
  /\ isRefactorModalOpen' = TRUE
  /\ isRefactoring' = TRUE
  /\ currentRefactor' = Null
  /\ error' = Null
  /\ refactorCalls' = refactorCalls + 1
  /\ Foreign
  /\ NoteStep
  /\ UNCHANGED <<libraryFiles, frontendFiles, analysisResult, isAnalyzing,
                 isApplyingChanges, autoReanalyze, undoStack, selectedFixes,
                 analyzeCalls, timers, scenario, hist, callChanges, callResult>>
  /\ Render(FALSE)
  /\ UNCHANGED <<refVars, geminiCall>>

\* refactorCode resolves (src/App.tsx:286, 295-297)
refactorCodeResolves ==
  /\ refactorCalls > 0
  /\ \E result \in RefactorPool : currentRefactor' = Some(result)
  /\ isRefactoring' = FALSE
  /\ refactorCalls' = refactorCalls - 1
  /\ Foreign
  /\ NoteStep
  /\ UNCHANGED <<libraryFiles, frontendFiles, analysisResult, isAnalyzing, error,
                 isRefactorModalOpen, isApplyingChanges, refactoringRecommendation,
                 autoReanalyze, undoStack, selectedFixes, analyzeCalls, timers,
                 scenario, hist, callChanges, callResult>>
  /\ Render(FALSE)
  /\ UNCHANGED <<refVars, geminiCall>>

\* refactorCode rejects (src/App.tsx:287-297)
refactorCodeRejects ==
  /\ refactorCalls > 0
  /\ currentRefactor' = Some(ErrorRefactorResult)
  /\ isRefactoring' = FALSE
  /\ refactorCalls' = refactorCalls - 1
  /\ Foreign
  /\ NoteStep
  /\ UNCHANGED <<libraryFiles, frontendFiles, analysisResult, isAnalyzing, error,
                 isRefactorModalOpen, isApplyingChanges, refactoringRecommendation,
                 autoReanalyze, undoStack, selectedFixes, analyzeCalls, timers,
                 scenario, hist, callChanges, callResult>>
  /\ Render(FALSE)
  /\ UNCHANGED <<refVars, geminiCall>>

\* onClose of the refactor modal (src/App.tsx:827)
closeRefactorModal ==
  /\ isRefactorModalOpen
  /\ isRefactorModalOpen' = FALSE
  /\ Foreign
  /\ NoteStep
  /\ UNCHANGED <<libraryFiles, frontendFiles, analysisResult, isAnalyzing, error,
                 currentRefactor, isRefactoring, isApplyingChanges,
                 refactoringRecommendation, autoReanalyze, undoStack, selectedFixes,
                 refactorCalls, analyzeCalls, timers, scenario, hist,
                 callChanges, callResult>>
  /\ Render(FALSE)
  /\ UNCHANGED <<refVars, geminiCall>>

\* What the handleConfirmRefactor of the current render has captured.
ConfirmClosure ==
  [libraryFiles |-> libraryFiles, frontendFiles |-> frontendFiles,
   analysisResult |-> analysisResult,
   refactoringRecommendation |-> refactoringRecommendation,
   autoReanalyze |-> autoReanalyze, undoStack |-> memo.confirm]

\* The statements after await maybeUpdateChangelog (src/App.tsx:460-466).
ConfirmFinish(cl, isCorrection, start, clean, tried) ==
  /\ isApplyingChanges' = FALSE
  /\ isRefactorModalOpen' = FALSE
  /\ timers' = IF cl.autoReanalyze /\ ~isCorrection
                 THEN Append(timers, [libraryFiles |-> cl.libraryFiles,
                                      frontendFiles |-> cl.frontendFiles])
                 ELSE timers
  /\ confirmTask' = Null
  /\ NoteOp("handleConfirmRefactor", "committed", start, clean, tried)

\* One invocation of handleConfirmRefactor(result, isCorrection, attempt) by
\* the handler that captured cl, up to its first await or its end
\* (src/App.tsx:398-467).
ConfirmStep(cl, result, isCorrection, attempt, start, clean, log) ==
  \E r \in {applyChangesToFiles(AllChanges(result), cl.libraryFiles,
                                cl.frontendFiles)} :
  \E tried \in {Append(log, [changes |-> AllChanges(result),
                             failedChanges |-> r.failedChanges])} :
  \E task \in {[phase |-> "correcting", cl |-> cl, isCorrection |-> isCorrection,
                attempt |-> attempt, start |-> start, clean |-> clean,
                tried |-> tried]} :
  LET allChanges == AllChanges(result)
      fix == cl.refactoringRecommendation
      marks == cl.analysisResult # Null /\ fix # Null
      suggestion == /\ cl.analysisResult # Null
                    /\ fix # Null
                    /\ RecommendationOf(cl.analysisResult[1], fix[1]) # <<>>
  IN  IF HasFailures(r.failedChanges, allChanges)
        THEN IF AttemptsExhausted(attempt)
               THEN /\ error' = Error("maxAttemptsError", FailedFileNames(r.failedChanges))
                    /\ isApplyingChanges' = FALSE
                    /\ isRefactorModalOpen' = FALSE
                    /\ confirmTask' = Null
                    /\ NoteOp("handleConfirmRefactor", "maxAttempts", start, clean, tried)
                    /\ UNCHANGED <<libraryFiles, frontendFiles, analysisResult,
                                   undoStack, timers, hist>>
                    /\ Render(FALSE)
               ELSE /\ isApplyingChanges' = TRUE
                    /\ confirmTask' = Some(task)
                    /\ NoteOp("handleConfirmRefactor", "correcting", start, clean, tried)
                    /\ UNCHANGED <<libraryFiles, frontendFiles, analysisResult,
                                   undoStack, error, isRefactorModalOpen, timers, hist>>
                    /\ Render(FALSE)
        ELSE /\ undoStack' = pushToUndoStack(cl.undoStack,
                               UndoState(cl.libraryFiles, cl.frontendFiles,
                                         cl.analysisResult))
             /\ libraryFiles' = r.newLibraryFiles
             /\ frontendFiles' = r.newFrontendFiles
             /\ analysisResult' = IF marks
                                    THEN Some(MarkApplied(cl.analysisResult[1], fix[1], result))
                                    ELSE analysisResult
             /\ hist' = HistCommit(start, clean)
             /\ UNCHANGED error
             /\ IF suggestion /\ HasChangelog(cl.libraryFiles, cl.frontendFiles)
                  THEN /\ isApplyingChanges' = TRUE
                       /\ confirmTask' = Some([task EXCEPT !.phase = "changelog"])
                       /\ NoteOp("handleConfirmRefactor", "committing", start, clean, tried)
                       /\ UNCHANGED <<isRefactorModalOpen, timers>>
                  ELSE ConfirmFinish(cl, isCorrection, start, clean, tried)
             /\ Render(TRUE)

\* disabled={isLoading || !result || isApplyingChanges} of the confirm
\* button (src/components/RefactorResultModal.tsx:197)
ConfirmDisabled == isRefactoring \/ currentRefactor = Null \/ isApplyingChanges

\* handleConfirmRefactor(result) from the modal (src/RefactorResultModal.tsx:
\* 20-23, 195-198)
handleConfirmRefactor ==
  /\ isRefactorModalOpen
  /\ ~ConfirmDisabled
  /\ FilesBelowCap
  /\ Len(undoStack) < StackCap
  /\ Len(memo.confirm) < StackCap
  /\ batchTask' = Disturbed(batchTask)
  /\ UNCHANGED <<isAnalyzing, currentRefactor, isRefactoring,
                 refactoringRecommendation, autoReanalyze, selectedFixes,
                 refactorCalls, analyzeCalls, scenario, callChanges, callResult>>
  /\ ConfirmStep(ConfirmClosure, currentRefactor[1], FALSE, 1, Snapshot, TRUE, <<>>)
  /\ UNCHANGED <<refVars, geminiCall>>

\* correctRefactorResult resolves and the handler calls itself
\* (src/App.tsx:415-424)
correctRefactorResultResolves ==
  /\ confirmTask # Null
  /\ confirmTask[1].phase = "correcting"
  /\ batchTask' = Disturbed(batchTask)
  /\ UNCHANGED <<isAnalyzing, currentRefactor, isRefactoring,
                 refactoringRecommendation, autoReanalyze, selectedFixes,
                 refactorCalls, analyzeCalls, scenario, callChanges, callResult>>
  /\ \E result \in RefactorPool :
       ConfirmStep(confirmTask[1].cl, result, TRUE, confirmTask[1].attempt + 1,
                   confirmTask[1].start, confirmTask[1].clean, confirmTask[1].tried)
  /\ UNCHANGED <<refVars, geminiCall>>

\* correctRefactorResult rejects (src/App.tsx:425-430)
correctRefactorResultRejects ==
  /\ confirmTask # Null
  /\ confirmTask[1].phase = "correcting"
  /\ error' = Error("selfCorrectionError", <<>>)
  /\ isApplyingChanges' = FALSE
  /\ isRefactorModalOpen' = FALSE
  /\ confirmTask' = Null
  /\ batchTask' = Disturbed(batchTask)
  /\ NoteOp("handleConfirmRefactor", "selfCorrectionError", confirmTask[1].start,
            confirmTask[1].clean, confirmTask[1].tried)
  /\ UNCHANGED <<libraryFiles, frontendFiles, analysisResult, isAnalyzing,
                 currentRefactor, isRefactoring, refactoringRecommendation,
                 autoReanalyze, undoStack, selectedFixes, refactorCalls,
                 analyzeCalls, timers, scenario, hist, callChanges, callResult>>
  /\ Render(FALSE)
  /\ UNCHANGED <<refVars, geminiCall>>

\* The functional updates of maybeUpdateChangelog (src/App.tsx:386-391) by the
\* handler that captured cl.
ChangelogWritten(cl, content) ==
  /\ libraryFiles' = IF ChangelogInLibrary(cl.libraryFiles)
                       THEN WithChangelogContent(libraryFiles, content)
                       ELSE libraryFiles
  /\ frontendFiles' = IF ChangelogInLibrary(cl.libraryFiles)
                        THEN frontendFiles
                        ELSE WithChangelogContent(frontendFiles, content)

\* updateChangelog resolves inside handleConfirmRefactor (src/App.tsx:379-391,
\* 460-466)
confirmChangelogResolves ==
  /\ confirmTask # Null
  /\ confirmTask[1].phase = "changelog"
  /\ \E content \in ChangelogPool : ChangelogWritten(confirmTask[1].cl, content)
  /\ ConfirmFinish(confirmTask[1].cl, confirmTask[1].isCorrection,
                   confirmTask[1].start, confirmTask[1].clean, confirmTask[1].tried)
  /\ batchTask' = Disturbed(batchTask)
  /\ UNCHANGED <<analysisResult, isAnalyzing, error, currentRefactor, isRefactoring,
                 refactoringRecommendation, autoReanalyze, undoStack, selectedFixes,
                 refactorCalls, analyzeCalls, scenario, hist, callChanges, callResult>>
  /\ Render(TRUE)
  /\ UNCHANGED <<refVars, geminiCall>>

\* updateChangelog rejects inside handleConfirmRefactor (src/App.tsx:392-395,
\* 460-466)
confirmChangelogRejects ==
  /\ confirmTask # Null
  /\ confirmTask[1].phase = "changelog"
  /\ error' = Error("changelogUpdateFailed", <<>>)
  /\ ConfirmFinish(confirmTask[1].cl, confirmTask[1].isCorrection,
                   confirmTask[1].start, confirmTask[1].clean, confirmTask[1].tried)
  /\ batchTask' = Disturbed(batchTask)
  /\ UNCHANGED <<libraryFiles, frontendFiles, analysisResult, isAnalyzing,
                 currentRefactor, isRefactoring, refactoringRecommendation,
                 autoReanalyze, undoStack, selectedFixes, refactorCalls,
                 analyzeCalls, scenario, hist, callChanges, callResult>>
  /\ Render(FALSE)
  /\ UNCHANGED <<refVars, geminiCall>>

\* ------------------------------------------------------------------------
\* Handlers: the batch path
\* ------------------------------------------------------------------------

\* handleToggleFixSelection (src/App.tsx:470-480)
handleToggleFixSelection ==
  /\ \E fileName \in FixFiles :
       /\ Recommended(Fix(fileName))
       /\ selectedFixes' =
            IF \E i \in 1..Len(selectedFixes) : selectedFixes[i] = Fix(fileName)
              THEN SelectSeq(selectedFixes, LAMBDA f : f # Fix(fileName))
              ELSE Append(selectedFixes, Fix(fileName))
  /\ Foreign
  /\ NoteStep
  /\ UNCHANGED <<libraryFiles, frontendFiles, analysisResult, isAnalyzing, error,
                 isRefactorModalOpen, currentRefactor, isRefactoring,
                 isApplyingChanges, refactoringRecommendation, autoReanalyze,
                 undoStack, refactorCalls, analyzeCalls, timers, scenario, hist,
                 callChanges, callResult>>
  /\ Render(FALSE)
  /\ UNCHANGED <<refVars, geminiCall>>

\* What the handleBatchApply of the current render has captured.
BatchClosure ==
  [libraryFiles |-> libraryFiles, frontendFiles |-> frontendFiles,
   analysisResult |-> analysisResult, selectedFixes |-> selectedFixes,
   autoReanalyze |-> autoReanalyze, undoStack |-> memo.batch]

\* A batch button that is never disabled.
BatchNeverDisabled == FALSE

\* disabled={isApplyingChanges} of the batch button
\* (src/components/AnalysisResult.tsx:405)
BatchDisabled == isApplyingChanges

\* handleBatchApply up to its await (src/App.tsx:482-509)
handleBatchApply ==
  /\ ~BatchDisabled
  /\ FilesBelowCap
  /\ Len(undoStack) < StackCap
  /\ Len(memo.batch) < StackCap
  /\ confirmTask' = Disturbed(confirmTask)
  /\ IF selectedFixes = <<>>
       THEN /\ error' = Error("noFixesSelectedError", <<>>)
            /\ NoteOp("handleBatchApply", "noFixesSelected", Snapshot, TRUE, <<>>)
            /\ UNCHANGED <<undoStack, isApplyingChanges, batchTask, hist>>
       ELSE /\ undoStack' = pushToUndoStack(memo.batch,
                              UndoState(libraryFiles, frontendFiles, analysisResult))
            /\ isApplyingChanges' = TRUE
            /\ error' = Null
            /\ batchTask' = Some([phase |-> "generating", cl |-> BatchClosure,
                                  start |-> Snapshot, clean |-> TRUE,
                                  tried |-> <<>>])
            /\ hist' = HistCommit(Snapshot, TRUE)
            /\ NoteOp("handleBatchApply", "generating", Snapshot, TRUE, <<>>)
  /\ UNCHANGED <<libraryFiles, frontendFiles, analysisResult, isAnalyzing,
                 isRefactorModalOpen, currentRefactor, isRefactoring,
                 refactoringRecommendation, autoReanalyze, selectedFixes,
                 refactorCalls, analyzeCalls, timers, scenario, callChanges,
                 callResult>>
  /\ Render(FALSE)
  /\ UNCHANGED <<refVars, geminiCall>>

\* A faulty test that gives up a batch as soon as one change failed.
AnyChangeFailed(failedChanges, changes) == Len(failedChanges) > 0

\* failedChanges.length === result.changes.length && result.changes.length > 0
\* (src/App.tsx:519)
AllChangesFailed(failedChanges, changes) ==
  Len(failedChanges) = Len(changes) /\ Len(changes) > 0

\* The statements after await maybeUpdateChangelog and the finally block
\* (src/App.tsx:550-562); tried is the application the batch has made.
BatchFinish(tried) ==
  /\ selectedFixes' = <<>>
  /\ timers' = IF batchTask[1].cl.autoReanalyze
                 THEN Append(timers, [libraryFiles |-> batchTask[1].cl.libraryFiles,
                                      frontendFiles |-> batchTask[1].cl.frontendFiles])
                 ELSE timers
  /\ isApplyingChanges' = FALSE
  /\ batchTask' = Null
  /\ NoteOp("handleBatchApply", "committed", batchTask[1].start, batchTask[1].clean,
            tried)

\* batchRefactorCode resolves (src/App.tsx:509-548)
batchRefactorCodeResolves ==
  /\ batchTask # Null
  /\ batchTask[1].phase = "generating"
  /\ confirmTask' = Disturbed(confirmTask)
  /\ UNCHANGED <<isAnalyzing, isRefactorModalOpen, currentRefactor, isRefactoring,
                 refactoringRecommendation, autoReanalyze, undoStack, refactorCalls,
                 analyzeCalls, scenario, callChanges, callResult>>
  /\ \E result \in BatchPool :
       \E cl \in {batchTask[1].cl} :
       \E r \in {applyChangesToFiles(result.changes, cl.libraryFiles,
                                     cl.frontendFiles)} :
           IF AllChangesFailed(r.failedChanges, result.changes)
             THEN /\ error' = Error("batchApplyFailedError",
                                    Dedupe(FailedFileNames(r.failedChanges)))
                  /\ isApplyingChanges' = FALSE
                  /\ batchTask' = Null
                  /\ hist' = HistImpure
                  /\ NoteOp("handleBatchApply", "allFailed", batchTask[1].start,
                            batchTask[1].clean,
                            <<[changes |-> result.changes,
                               failedChanges |-> r.failedChanges]>>)
                  /\ UNCHANGED <<libraryFiles, frontendFiles, analysisResult,
                                 selectedFixes, timers>>
                  /\ Render(FALSE)
             ELSE /\ libraryFiles' = r.newLibraryFiles
                  /\ frontendFiles' = r.newFrontendFiles
                  /\ analysisResult' =
                       IF cl.analysisResult # Null
                         THEN Some(MarkFixes(cl.analysisResult[1], cl.selectedFixes))
                         ELSE analysisResult
                  /\ hist' = IF batchTask[1].clean THEN hist ELSE HistImpure
                  /\ UNCHANGED error
                  /\ IF HasChangelog(cl.libraryFiles, cl.frontendFiles)
                       THEN /\ batchTask' =
                                 Some([batchTask[1] EXCEPT
                                         !.phase = "changelog",
                                         !.tried = <<[changes |-> result.changes,
                                                      failedChanges |-> r.failedChanges]>>])
                            /\ NoteOp("handleBatchApply", "committing",
                                      batchTask[1].start, batchTask[1].clean,
                                      <<[changes |-> result.changes,
                                         failedChanges |-> r.failedChanges]>>)
                            /\ UNCHANGED <<selectedFixes, timers, isApplyingChanges>>
                       ELSE BatchFinish(<<[changes |-> result.changes,
                                           failedChanges |-> r.failedChanges]>>)
                  /\ Render(TRUE)
  /\ UNCHANGED <<refVars, geminiCall>>

\* batchRefactorCode rejects (src/App.tsx:557-562)
batchRefactorCodeRejects ==
  /\ batchTask # Null
  /\ batchTask[1].phase = "generating"
  /\ error' = Error("batchApplyError", <<>>)
  /\ isApplyingChanges' = FALSE
  /\ batchTask' = Null
  /\ confirmTask' = Disturbed(confirmTask)
  /\ hist' = HistImpure
  /\ NoteOp("handleBatchApply", "generatorRejected", batchTask[1].start,
            batchTask[1].clean, <<>>)
  /\ UNCHANGED <<libraryFiles, frontendFiles, analysisResult, isAnalyzing,
                 isRefactorModalOpen, currentRefactor, isRefactoring,
                 refactoringRecommendation, autoReanalyze, undoStack, selectedFixes,
                 refactorCalls, analyzeCalls, timers, scenario, callChanges,
                 callResult>>
  /\ Render(FALSE)
  /\ UNCHANGED <<refVars, geminiCall>>

\* updateChangelog resolves inside handleBatchApply (src/App.tsx:379-391,
\* 550-562)
batchChangelogResolves ==
  /\ batchTask # Null
  /\ batchTask[1].phase = "changelog"
  /\ \E content \in ChangelogPool : ChangelogWritten(batchTask[1].cl, content)
  /\ BatchFinish(batchTask[1].tried)
  /\ confirmTask' = Disturbed(confirmTask)
  /\ UNCHANGED <<analysisResult, isAnalyzing, error, isRefactorModalOpen,
                 currentRefactor, isRefactoring, refactoringRecommendation,
                 autoReanalyze, undoStack, refactorCalls, analyzeCalls, scenario,
                 hist, callChanges, callResult>>
  /\ Render(TRUE)
  /\ UNCHANGED <<refVars, geminiCall>>

\* updateChangelog rejects inside handleBatchApply (src/App.tsx:392-395,
\* 550-562)
batchChangelogRejects ==
  /\ batchTask # Null
  /\ batchTask[1].phase = "changelog"
  /\ error' = Error("changelogUpdateFailed", <<>>)
  /\ BatchFinish(batchTask[1].tried)
  /\ confirmTask' = Disturbed(confirmTask)
  /\ UNCHANGED <<libraryFiles, frontendFiles, analysisResult, isAnalyzing,
                 isRefactorModalOpen, currentRefactor, isRefactoring,
                 refactoringRecommendation, autoReanalyze, undoStack, refactorCalls,
                 analyzeCalls, scenario, hist, callChanges, callResult>>
  /\ Render(FALSE)
  /\ UNCHANGED <<refVars, geminiCall>>

\* ------------------------------------------------------------------------
\* Handlers: undo
\* ------------------------------------------------------------------------

\* handleUndo (src/App.tsx:566-577); its dependency list holds undoStack, so
\* it always sees the current stack.
handleUndo ==
  /\ IF StackEmpty(undoStack)
       THEN /\ UNCHANGED <<libraryFiles, frontendFiles, analysisResult, undoStack,
                           error, hist>>
            /\ op' = [OpOf("handleUndo", "empty", Snapshot, TRUE, <<>>)
                        EXCEPT !.prev = [name |-> op.name, outcome |-> op.outcome,
                                         start |-> op.start, clean |-> op.clean]]
       ELSE /\ libraryFiles' = LastState(undoStack).libraryFiles
            /\ frontendFiles' = LastState(undoStack).frontendFiles
            /\ analysisResult' = LastState(undoStack).analysisResult
            /\ undoStack' = SubSeq(undoStack, 1, Len(undoStack) - 1)
            /\ error' = Null
            /\ hist' = HistUndo
            /\ op' = [OpOf("handleUndo", "restored", Snapshot, TRUE, <<>>)
                        EXCEPT !.prev = [name |-> op.name, outcome |-> op.outcome,
                                         start |-> op.start, clean |-> op.clean]]
  /\ Foreign
  /\ UNCHANGED <<isAnalyzing, isRefactorModalOpen, currentRefactor, isRefactoring,
                 isApplyingChanges, refactoringRecommendation, autoReanalyze,
                 selectedFixes, refactorCalls, analyzeCalls, timers, scenario,
                 callChanges, callResult>>
  /\ Render(FALSE)
  /\ UNCHANGED <<refVars, geminiCall>>

\* handleUndoFix(fileName, recIndex) (src/App.tsx:579-622), called for a
\* recommendation of the analysis on screen.
handleUndoFix ==
  /\ FilesBelowCap
  /\ Len(undoStack) < StackCap
  /\ Len(memo.undoFix) < StackCap
  /\ undoStack' = pushToUndoStack(memo.undoFix,
                    UndoState(libraryFiles, frontendFiles, analysisResult))
  /\ Foreign
  /\ UNCHANGED <<isAnalyzing, isRefactorModalOpen, currentRefactor, isRefactoring,
                 isApplyingChanges, refactoringRecommendation, autoReanalyze,
                 selectedFixes, refactorCalls, analyzeCalls, timers, scenario,
                 callChanges, callResult>>
  /\ \E fileName \in FixFiles :
       /\ Recommended(Fix(fileName))
       /\ \E recommendation \in
              {RecommendationOf(analysisResult[1], Fix(fileName))[1]} :
              IF recommendation.appliedRefactorResult = Null
                THEN /\ error' = Error("undoFailedError", <<>>)
                     /\ hist' = HistImpure
                     /\ NoteOp("handleUndoFix", "undoFailed", Snapshot, TRUE, <<>>)
                     /\ UNCHANGED <<libraryFiles, frontendFiles, analysisResult>>
                     /\ Render(FALSE)
                ELSE \E r \in {applyChangesToFiles(
                                 ReversedAll(AllChanges(
                                   recommendation.appliedRefactorResult[1])),
                                 libraryFiles, frontendFiles)} :
                     /\ libraryFiles' = r.newLibraryFiles
                     /\ frontendFiles' = r.newFrontendFiles
                     /\ analysisResult' = Some(Unmark(analysisResult[1], Fix(fileName)))
                     /\ hist' = HistCommit(Snapshot, TRUE)
                     /\ NoteOp("handleUndoFix", "reverted", Snapshot, TRUE,
                               <<[changes |-> ReversedAll(AllChanges(
                                                recommendation.appliedRefactorResult[1])),
                                  failedChanges |-> r.failedChanges]>>)
                     /\ UNCHANGED error
                     /\ Render(TRUE)
  /\ UNCHANGED <<refVars, geminiCall>>

\* ------------------------------------------------------------------------
\* Applying and undoing fixes: a project of one library file and one
\* frontend file, uploaded and analysed, autoReanalyze as constructed (off)
\* ------------------------------------------------------------------------
ProjectFiles == <<File(FeName, FeContent, Undefined)>>

Init ==
  /\ InitApp(LibUpload, ProjectFiles, Some(AnalysisOf(LibUpload, ProjectFiles)), "wide")
  /\ InitRefs

Next ==
  \/ handleApplyFix
  \/ refactorCodeResolves
  \/ refactorCodeRejects
  \/ closeRefactorModal
  \/ handleConfirmRefactor
  \/ correctRefactorResultResolves
  \/ correctRefactorResultRejects
  \/ handleToggleFixSelection
  \/ handleBatchApply
  \/ batchRefactorCodeResolves
  \/ batchRefactorCodeRejects
  \/ handleUndo
  \/ handleUndoFix

Spec == Init /\ [][Next]_vars

\* ------------------------------------------------------------------------
\* Long histories: one library file already analysed, and only the
\* single-fix path and undo, up to MaxCountHistory commits
\* ------------------------------------------------------------------------
InitHistory ==
  /\ InitApp(LibUpload, <<>>, Some(AnalysisOf(LibUpload, <<>>)), "history")
  /\ InitRefs

NextHistory ==
  \/ handleApplyFix
  \/ refactorCodeResolves
  \/ closeRefactorModal
  \/ handleConfirmRefactor
  \/ correctRefactorResultResolves
  \/ correctRefactorResultRejects
  \/ handleUndo

SpecHistory == InitHistory /\ [][NextHistory]_vars

\* ------------------------------------------------------------------------
\* Re-analysis: the project of Init, the checkbox "re-analyse after a fix",
\* the single-fix path without a correction round, the timer it sets and
\* the analysis the timer or the button starts.  The 500 ms of a timer pass
\* before the user asks for the next fix.
\* ------------------------------------------------------------------------
NextReanalysis ==
  \/ setAutoReanalyze
  \/ timers = <<>> /\ handleApplyFix
  \/ refactorCodeResolves
  \/ handleConfirmRefactor
  \/ analysisTimerFires
  \/ handleAnalyze
  \/ analyzeGasProjectResolves
  \/ analyzeGasProjectRejects
  \/ handleUndo

SpecReanalysis == Init /\ [][NextReanalysis]_vars

\* ------------------------------------------------------------------------
\* Arrays and objects by reference.  A cell of heap is an array of
\* references to file objects ([files |-> ...]) or a file object
\* ([file |-> ...]); a reference is the index of a cell.  A step of the
\* application allocates cells and may write the cells of an array.
\* ------------------------------------------------------------------------
ArrayCell(refs) == [files |-> refs]
FileCell(file) == [file |-> file]

\* The UploadedFile[] value of the array at ref.
FilesAt(h, ref) == [i \in 1..Len(h[ref].files) |-> h[h[ref].files[i]].file]

\* A new array holding new objects for the given files.
NewArray(h, files) ==
  LET n == Len(files)
      objects == [i \in 1..n |-> FileCell(files[i])]
      refs == [i \in 1..n |-> Len(h) + i]
  IN  [heap |-> (h \o objects) \o <<ArrayCell(refs)>>, ref |-> Len(h) + n + 1]

\* A faulty copy: the array itself is handed on.
NoCopy(h, ref) == [heap |-> h, ref |-> ref]

\* JSON.parse(JSON.stringify(files)) (src/App.tsx:301-302)
JsonCopy(h, ref) == NewArray(h, FilesAt(h, ref))

\* fileList[fileIndex] = { ...fileList[fileIndex], content, changesCount }
\* (src/App.tsx:364): a new object, written into the array at ref.
AssignFile(h, ref, fileIndex, file) ==
  LET h1 == Append(h, FileCell(file))
  IN  [h1 EXCEPT ![ref] = ArrayCell([@.files EXCEPT ![fileIndex] = Len(h1)])]

\* The writes of changesByFile.forEach into the arrays at lib and fe; r is
\* the value applyChangesToFiles computes.
RECURSIVE AssignGroups(_, _, _, _, _)
AssignGroups(h, names, lib, fe, r) ==
  IF names = <<>> THEN h
  ELSE LET fileName == Head(names)
           inLib == FindIndex(FilesAt(h, lib), fileName)
           inFe == FindIndex(FilesAt(h, fe), fileName)
           h1 == IF inLib # 0
                   THEN AssignFile(h, lib, inLib, r.newLibraryFiles[inLib])
                   ELSE IF inFe # 0
                     THEN AssignFile(h, fe, inFe, r.newFrontendFiles[inFe])
                     ELSE h
       IN  AssignGroups(h1, Tail(names), lib, fe, r)

\* applyChangesToFiles on the arrays at currentLibraryFiles and
\* currentFrontendFiles: the heap after the call and the arrays returned.
applyChangesToFilesAt(h, allChanges, currentLibraryFiles, currentFrontendFiles) ==
  LET lib == JsonCopy(h, currentLibraryFiles)
      fe == JsonCopy(lib.heap, currentFrontendFiles)
      r == applyChangesToFiles(allChanges, FilesAt(fe.heap, lib.ref),
                               FilesAt(fe.heap, fe.ref))
  IN  [heap |-> AssignGroups(fe.heap, FileNamesInOrder(allChanges), lib.ref, fe.ref, r),
       newLibraryFiles |-> lib.ref,
       newFrontendFiles |-> fe.ref,
       failedChanges |-> r.failedChanges]

\* prev.map(f => ... ? { ...f, content: newChangelogContent } : f)
\* (src/App.tsx:388-390): a new array that shares the objects left alone.
MapChangelogAt(h, ref, content) ==
  LET files == FilesAt(h, ref)
      hit == {i \in 1..Len(files) : UpperName(files[i].name) = "CHANGELOG.MD"}
      hitSeq == SelectSeq([i \in 1..Len(files) |-> i], LAMBDA i : i \in hit)
      objects == [k \in 1..Len(hitSeq) |->
                    FileCell([files[hitSeq[k]] EXCEPT !.content = content])]
      place(i) == CHOOSE k \in 1..Len(hitSeq) : hitSeq[k] = i
      refs == [i \in 1..Len(files) |->
                 IF i \in hit THEN Len(h) + place(i) ELSE h[ref].files[i]]
  IN  [heap |-> (h \o objects) \o <<ArrayCell(refs)>>,
       ref |-> Len(h) + Len(hitSeq) + 1]

\* The snapshot pushed to the undo stack holds the arrays themselves.
UndoStateAt(lib, fe) == [libraryFiles |-> lib, frontendFiles |-> fe]

\* ------------------------------------------------------------------------
\* Applying, logging and undoing by reference: the steps that read or
\* replace libraryFiles, frontendFiles and the undo stack, with every array
\* followed in memory.  undoStack keeps the values that were pushed.
\* ------------------------------------------------------------------------
ReferenceFrontend ==
  <<File(FeName, FeContent, Undefined), File(ChangelogName, <<>>, Undefined)>>

\* Candidate lists handed to applyChangesToFiles.
ReferencePool == {<<AtoB>>, <<BtoA>>, <<AtoB, FeHit>>, <<BtoA, FeMiss>>}

InitReferences ==
  /\ InitApp(LibUpload, ReferenceFrontend, Null, "references")
  /\ NoGeminiCall
  /\ \E lib \in {NewArray(<<>>, LibUpload)} :
     \E fe \in {NewArray(lib.heap, ReferenceFrontend)} :
       /\ heap = fe.heap
       /\ libraryFilesRef = lib.ref
       /\ frontendFilesRef = fe.ref
  /\ undoStackRefs = <<>>

\* handleConfirmRefactor up to its commit (src/App.tsx:403, 405, 431-434):
\* the call of applyChangesToFiles and, when no change failed, the push
\* of the current arrays and the replacement of both file sets.
confirmAt ==
  /\ Len(heap) < MaxHeapCells
  /\ Len(undoStack) < MaxStackReferences
  /\ \E allChanges \in ReferencePool :
     \E r \in {applyChangesToFilesAt(heap, allChanges, libraryFilesRef, frontendFilesRef)} :
       /\ heap' = r.heap
       /\ IF Len(r.failedChanges) > 0
            THEN UNCHANGED <<libraryFilesRef, frontendFilesRef, undoStackRefs,
                             libraryFiles, frontendFiles, undoStack>>
            ELSE /\ undoStackRefs' = pushToUndoStack(undoStackRefs,
                                       UndoStateAt(libraryFilesRef, frontendFilesRef))
                 /\ libraryFilesRef' = r.newLibraryFiles
                 /\ frontendFilesRef' = r.newFrontendFiles
                 /\ undoStack' = pushToUndoStack(undoStack,
                                   UndoState(libraryFiles, frontendFiles, analysisResult))
                 /\ libraryFiles' = FilesAt(r.heap, r.newLibraryFiles)
                 /\ frontendFiles' = FilesAt(r.heap, r.newFrontendFiles)
  /\ UNCHANGED <<analysisResult, isAnalyzing, error, isRefactorModalOpen,
                 currentRefactor, isRefactoring, isApplyingChanges,
                 refactoringRecommendation, autoReanalyze, selectedFixes, memo,
                 confirmTask, batchTask, refactorCalls, analyzeCalls, timers,
                 scenario, op, hist, callChanges, callResult>>
  /\ UNCHANGED geminiCall

\* The state updates of maybeUpdateChangelog (src/App.tsx:386-391).
changelogAt ==
  /\ Len(heap) < MaxHeapCells
  /\ undoStack # <<>>
  /\ \E content \in ChangelogPool \cup {<<>>} :
     \E m \in {IF ChangelogInLibrary(libraryFiles)
                 THEN MapChangelogAt(heap, libraryFilesRef, content)
                 ELSE MapChangelogAt(heap, frontendFilesRef, content)} :
       /\ heap' = m.heap
       /\ IF ChangelogInLibrary(libraryFiles)
            THEN /\ libraryFilesRef' = m.ref
                 /\ libraryFiles' = FilesAt(m.heap, m.ref)
                 /\ UNCHANGED <<frontendFilesRef, frontendFiles>>
            ELSE /\ frontendFilesRef' = m.ref
                 /\ frontendFiles' = FilesAt(m.heap, m.ref)
                 /\ UNCHANGED <<libraryFilesRef, libraryFiles>>
  /\ UNCHANGED <<undoStackRefs, undoStack,
                 analysisResult, isAnalyzing, error, isRefactorModalOpen,
                 currentRefactor, isRefactoring, isApplyingChanges,
                 refactoringRecommendation, autoReanalyze, selectedFixes, memo,
                 confirmTask, batchTask, refactorCalls, analyzeCalls, timers,
                 scenario, op, hist, callChanges, callResult>>
  /\ UNCHANGED geminiCall

\* handleUndo (src/App.tsx:566-577): the arrays of the last snapshot
\* become the current ones.
undoAt ==
  /\ ~StackEmpty(undoStackRefs)
  /\ libraryFilesRef' = LastState(undoStackRefs).libraryFiles
  /\ frontendFilesRef' = LastState(undoStackRefs).frontendFiles
  /\ undoStackRefs' = SubSeq(undoStackRefs, 1, Len(undoStackRefs) - 1)
  /\ libraryFiles' = LastState(undoStack).libraryFiles
  /\ frontendFiles' = LastState(undoStack).frontendFiles
  /\ analysisResult' = LastState(undoStack).analysisResult
  /\ undoStack' = SubSeq(undoStack, 1, Len(undoStack) - 1)
  /\ UNCHANGED <<heap, isAnalyzing, error, isRefactorModalOpen,
                 currentRefactor, isRefactoring, isApplyingChanges,
                 refactoringRecommendation, autoReanalyze, selectedFixes, memo,
                 confirmTask, batchTask, refactorCalls, analyzeCalls, timers,
                 scenario, op, hist, callChanges, callResult>>
  /\ UNCHANGED geminiCall

NextReferences ==
  \/ confirmAt
  \/ changelogAt
  \/ undoAt

SpecReferences == InitReferences /\ [][NextReferences]_vars

\* ------------------------------------------------------------------------
\* The Gemini service: one invocation of handleGeminiCallWithRetry
\* (src/services/geminiService.ts:254-338).  geminiCall holds its
\* arguments (language, whether a schema was given, retries), the loop
\* counter i, the number of generateContent calls issued, the outcome of
\* each call that has ended, and the error thrown.  An error message is the
\* sequence of its phrases.
\* ------------------------------------------------------------------------
MaxRetries == 3   \* every caller leaves retries at its default, 3

Languages == {"en", "ru"}
\* response.candidates?.[0]?.finishReason; "none": no candidate or no reason
FinishReasons == {"none", "STOP", "MAX_TOKENS", "SAFETY", "RECITATION"}
\* Messages generateContent rejects with.
RejectMessages == {<<"429">>, <<"Rpc failed">>, <<"fetch failed">>}
\* The message of the SyntaxError JSON.parse throws.
SyntaxErrorMessage == <<"Unexpected token", "JSON">>

NotCompletedEnglish == "The analysis was not completed successfully"
NotCompletedRussian == "Analiz byl zavershen ne polnostyu"
\* e.message.includes(phrase)
Includes(message, phrase) == \E k \in 1..Len(message) : message[k] = phrase

\* new Error(isRussian ? ... : ...) for a finish reason other than STOP
\* (geminiService.ts:271-293)
FinishReasonError(isRussian, finishReason) ==
  <<IF isRussian THEN NotCompletedRussian ELSE NotCompletedEnglish, finishReason>>

\* The error of the last attempt (geminiService.ts:309-334)
LastAttemptError(isRussian, message) ==
  <<IF Includes(message, "429") THEN "daily limit"
    ELSE IF Includes(message, "Rpc failed") THEN "failed to connect"
    ELSE IF Includes(message, "JSON") THEN "incorrect JSON"
    ELSE "unknown error",
    IF isRussian THEN "ru" ELSE "en">>

\* The loop test with counter i and, when it passes, the body up to
\* await ai.models.generateContent (geminiService.ts:256-268); when it does
\* not, the function ends without a value.
Iterate(call, i) ==
  IF i < call.retries
    THEN [call EXCEPT !.pc = "awaiting", !.i = i, !.calls = call.calls + 1]
    ELSE [call EXCEPT !.pc = "returned", !.i = i]

\* The catch block on an error with the given message, after a call that
\* ended as outcome (geminiService.ts:302-336).
Catch(call, outcome, message) ==
  LET logged == [call EXCEPT !.log = Append(call.log, outcome)]
  IN  IF Includes(message, NotCompletedEnglish)
        THEN [logged EXCEPT !.pc = "thrown", !.message = message]
      ELSE IF call.i = call.retries - 1
        THEN [logged EXCEPT !.pc = "thrown",
                            !.message = LastAttemptError(call.language = "ru", message)]
      ELSE [logged EXCEPT !.pc = "backoff"]

ServiceIdle == UNCHANGED <<appVars, callChanges, callResult, refVars>>

\* The invocation reaches the loop.
invokeGeminiCall ==
  /\ geminiCall.pc = "invoked"
  /\ geminiCall' = Iterate(geminiCall, 0)
  /\ ServiceIdle

\* generateContent resolves (geminiService.ts:270-300)
generateContentResolves ==
  /\ geminiCall.pc = "awaiting"
  /\ \E finishReason \in FinishReasons : \E textIsJson \in BOOLEAN :
       geminiCall' =
         IF finishReason \notin {"none", "STOP"}
           THEN Catch(geminiCall, finishReason,
                      FinishReasonError(geminiCall.language = "ru", finishReason))
         ELSE IF geminiCall.schema /\ ~textIsJson
           THEN Catch(geminiCall, "SyntaxError", SyntaxErrorMessage)
         ELSE [geminiCall EXCEPT !.pc = "returned",
                                 !.log = Append(geminiCall.log, "succeeded")]
  /\ ServiceIdle

\* generateContent rejects (geminiService.ts:264-268, 302)
generateContentRejects ==
  /\ geminiCall.pc = "awaiting"
  /\ \E message \in RejectMessages :
       geminiCall' = Catch(geminiCall, "rejected", message)
  /\ ServiceIdle

\* The timer of line 335 fires and the loop goes on with i + 1.
backoffElapses ==
  /\ geminiCall.pc = "backoff"
  /\ geminiCall' = Iterate(geminiCall, geminiCall.i + 1)
  /\ ServiceIdle

InitService ==
  /\ InitApp(<<>>, <<>>, Null, "service")
  /\ heap = <<>>
  /\ libraryFilesRef = 0
  /\ frontendFilesRef = 0
  /\ undoStackRefs = <<>>
  /\ \E language \in Languages : \E schema \in BOOLEAN : \E retries \in 1..MaxRetries :
       geminiCall = [pc |-> "invoked", language |-> language, schema |-> schema,
                     retries |-> retries, i |-> 0, calls |-> 0, log |-> <<>>,
                     message |-> <<>>]

NextService ==
  \/ invokeGeminiCall
  \/ generateContentResolves
  \/ generateContentRejects
  \/ backoffElapses

SpecService == InitService /\ [][NextService]_vars

\* ------------------------------------------------------------------------
\* Vocabulary of the claims about applyChangesToFiles
\* ------------------------------------------------------------------------
Called == callResult # Null

\* sub occurs in s as an exact, contiguous subsequence
Occurs(s, sub) ==
  \E k \in 0..(Len(s) - Len(sub)) : SubSeq(s, k + 1, k + Len(sub)) = sub

\* start of the first occurrence of sub in s (only used when Occurs(s, sub))
FirstAt(s, sub) ==
  Min({k \in 0..(Len(s) - Len(sub)) : SubSeq(s, k + 1, k + Len(sub)) = sub})

InFailed(result, change) ==
  \E i \in 1..Len(result.failedChanges) : result.failedChanges[i].change = change

LibContentIn == libraryFiles[1].content
Returned == callResult[1]
LibContentOut == Returned.newLibraryFiles[1].content

\* s with the span [at, at + n) replaced by corr
Splice(s, at, n, corr) == SubSeq(s, 1, at) \o corr \o SubSeq(s, at + n + 1, Len(s))

\* The call is two changes to the library file whose original snippets are
\* non-empty and whose first occurrences in the input content are disjoint
\* spans, the first lying before the second.
TwoDisjointSpans ==
  /\ Called
  /\ Len(callChanges) = 2
  /\ \A i \in 1..2 :
       /\ callChanges[i].fileName = LibName
       /\ callChanges[i].originalCodeSnippet # <<>>
       /\ Occurs(LibContentIn, callChanges[i].originalCodeSnippet)
  /\ FirstAt(LibContentIn, callChanges[1].originalCodeSnippet)
       + Len(callChanges[1].originalCodeSnippet)
     <= FirstAt(LibContentIn, callChanges[2].originalCodeSnippet)

\* the input content with both located spans replaced
BothReplaced ==
  LET c1 == callChanges[1]
      c2 == callChanges[2]
      i1 == FirstAt(LibContentIn, c1.originalCodeSnippet)
      i2 == FirstAt(LibContentIn, c2.originalCodeSnippet)
  IN  Splice(Splice(LibContentIn, i2, Len(c2.originalCodeSnippet), c2.correctedCodeSnippet),
             i1, Len(c1.originalCodeSnippet), c1.correctedCodeSnippet)

\* C1: two changes to one file on disjoint spans, the first replacement of a
\* different length than its original: both are applied where they were
\* located and failedChanges is empty.
C1_OffsetCorrectness ==
  (/\ TwoDisjointSpans
   /\ Len(callChanges[1].correctedCodeSnippet) # Len(callChanges[1].originalCodeSnippet))
  => (/\ Returned.failedChanges = <<>>
      /\ LibContentOut = BothReplaced)

\* The content of the named input file, and the changes of the call that
\* target it, in call order.
InputFile(name) ==
  IF FindIndex(libraryFiles, name) # 0
    THEN libraryFiles[FindIndex(libraryFiles, name)]
    ELSE frontendFiles[FindIndex(frontendFiles, name)]
GroupOf(name) == ChangesOfFile(callChanges, name)
\* The loop state of the named file just before / just after its k-th change.
BeforeChange(name, k) == ApplyPrefix(InputFile(name).content, GroupOf(name), k - 1)
AfterChange(name, k) == ApplyPrefix(InputFile(name).content, GroupOf(name), k)

\* C2 as stated: a change whose original snippet is not a substring of the
\* target file (as it was handed to the call) is reported as failed.
C2_AsStated ==
  Called =>
    \A i \in 1..Len(callChanges) :
      (/\ callChanges[i].fileName \in {LibName, FeName}
       /\ ~Occurs(InputFile(callChanges[i].fileName).content,
                  callChanges[i].originalCodeSnippet))
      => InFailed(Returned, callChanges[i])

\* C2 (amended): a change whose original snippet is not an exact substring
\* of its file's content at the moment the change is processed (the input
\* content with the earlier changes of the same call applied) is reported
\* with reason SNIPPET_NOT_FOUND and leaves that content as it was.
C2_ExactMatchOnCurrentContent ==
  Called =>
    \A name \in {LibName, FeName} :
      \A k \in 1..Len(GroupOf(name)) :
        ~Occurs(BeforeChange(name, k).content, GroupOf(name)[k].originalCodeSnippet)
        => /\ AfterChange(name, k).content = BeforeChange(name, k).content
           /\ AfterChange(name, k).applied = BeforeChange(name, k).applied
           /\ AfterChange(name, k).failed =
                Append(BeforeChange(name, k).failed,
                       [change |-> GroupOf(name)[k], reason |-> SNIPPET_NOT_FOUND])
           /\ \E j \in 1..Len(Returned.failedChanges) :
                Returned.failedChanges[j] =
                  [change |-> GroupOf(name)[k], reason |-> SNIPPET_NOT_FOUND]

\* Witness of C2: the second change's snippet occurred in the input content,
\* the first change removed it, and the second change is reported as failed
\* while the first one's effect is kept.
C2_Witness ==
  /\ Called
  /\ Len(GroupOf(LibName)) = 2
  /\ Occurs(LibContentIn, GroupOf(LibName)[2].originalCodeSnippet)
  /\ ~Occurs(BeforeChange(LibName, 2).content, GroupOf(LibName)[2].originalCodeSnippet)
  /\ Returned.applied = <<GroupOf(LibName)[1]>>
  /\ InFailed(Returned, GroupOf(LibName)[2])
  /\ LibContentOut = BeforeChange(LibName, 2).content
  /\ LibContentOut # LibContentIn

\* The call is two changes to the library file whose original snippets are
\* non-empty and whose first occurrences in the input content overlap.
TwoOverlappingSpans ==
  /\ Called
  /\ Len(callChanges) = 2
  /\ \A i \in 1..2 :
       /\ callChanges[i].fileName = LibName
       /\ callChanges[i].originalCodeSnippet # <<>>
       /\ Occurs(LibContentIn, callChanges[i].originalCodeSnippet)
  /\ LET i1 == FirstAt(LibContentIn, callChanges[1].originalCodeSnippet)
         i2 == FirstAt(LibContentIn, callChanges[2].originalCodeSnippet)
     IN  /\ i1 < i2 + Len(callChanges[2].originalCodeSnippet)
         /\ i2 < i1 + Len(callChanges[1].originalCodeSnippet)

\* C7: of two changes whose original spans overlap, exactly the first is
\* applied and the other is reported in failedChanges.
C7_OverlapKeepsFirstOnly ==
  TwoOverlappingSpans =>
    /\ Returned.applied = <<callChanges[1]>>
    /\ Len(Returned.failedChanges) = 1
    /\ Returned.failedChanges[1].change = callChanges[2]

\* ------------------------------------------------------------------------
\* Vocabulary of the claims about the handlers.  op describes the step
\* taken last; op.start is the state in which its handler was invoked, and
\* op.clean says that no other handler ran between that invocation and
\* this step.
\* ------------------------------------------------------------------------
FilesAsAt(start) ==
  /\ libraryFiles = start.libraryFiles
  /\ frontendFiles = start.frontendFiles

StateAsAt(start) ==
  /\ FilesAsAt(start)
  /\ analysisResult = start.analysisResult

LastAttempt == op.tried[Len(op.tried)]

\* In an application attempt the main change was applied and a related
\* change was not.
MainAppliedRelatedFailed(attempt) ==
  /\ \A i \in 1..Len(attempt.failedChanges) :
       attempt.failedChanges[i].change # attempt.changes[1]
  /\ \E i \in 1..Len(attempt.failedChanges) :
       \E j \in 2..Len(attempt.changes) :
         attempt.failedChanges[i].change = attempt.changes[j]

ConfirmOp == op.name = "handleConfirmRefactor"

\* C3: as long as the latest application attempt of a single-recommendation
\* apply applied the main change but failed on a related change (while a
\* correction is awaited, when the attempts are used up, when the correction
\* call is rejected), libraryFiles and frontendFiles are what they were when
\* the apply was invoked.
C3_NothingCommittedOnPartialFailure ==
  (/\ ConfirmOp
   /\ op.clean
   /\ op.tried # <<>>
   /\ MainAppliedRelatedFailed(LastAttempt))
    => FilesAsAt(op.start)

C3_Witness ==
  /\ ConfirmOp
  /\ op.outcome = "maxAttempts"
  /\ op.clean
  /\ Len(op.tried) = MAX_ATTEMPTS
  /\ \A i \in 1..MAX_ATTEMPTS : MainAppliedRelatedFailed(op.tried[i])

CommittedApply(o) ==
  /\ o.name \in {"handleConfirmRefactor", "handleBatchApply"}
  /\ o.outcome = "committed"
  /\ o.clean

AwaitingCorrection == confirmTask # Null /\ confirmTask[1].phase = "correcting"

C5_AttemptsBounded ==
  /\ (confirmTask # Null /\ confirmTask[1].phase = "correcting")
       => /\ confirmTask[1].attempt < MAX_ATTEMPTS
          /\ Len(confirmTask[1].tried) = confirmTask[1].attempt
  /\ ConfirmOp
       => /\ Len(op.tried) <= MAX_ATTEMPTS
          /\ (op.outcome = "maxAttempts")
               <=> (/\ Len(op.tried) = MAX_ATTEMPTS
                    /\ LastAttempt.failedChanges # <<>>)
          /\ op.outcome = "maxAttempts"
               => /\ \A i \in 1..MAX_ATTEMPTS : op.tried[i].failedChanges # <<>>
                  /\ confirmTask = Null
                  /\ error # Null
                  /\ error[1].kind = "maxAttemptsError"

\* A settled correction call ends the apply or leaves it waiting again
\* with one more attempt made.
C5_AttemptsAdvance ==
  (AwaitingCorrection /\ confirmTask' # Null)
    => \/ /\ confirmTask'[1].attempt = confirmTask[1].attempt
          /\ confirmTask'[1].tried = confirmTask[1].tried
       \/ /\ confirmTask'[1].attempt = confirmTask[1].attempt + 1
          /\ confirmTask'[1].attempt <= MAX_ATTEMPTS
          /\ Len(confirmTask'[1].tried) = Len(confirmTask[1].tried) + 1

\* C5: a single-fix apply makes at most MAX_ATTEMPTS application attempts:
\* it waits for a correction only after fewer than MAX_ATTEMPTS attempts,
\* every correction that arrives is followed by exactly one further
\* attempt, and the apply ends with the max-attempts error exactly when the
\* MAX_ATTEMPTS-th attempt fails, so that whatever the corrections are it
\* neither makes a fourth attempt nor waits a third time.
C5_TerminatesAfterMaxAttempts ==
  /\ []C5_AttemptsBounded
  /\ [][C5_AttemptsAdvance]_vars

C5_Witness ==
  /\ ConfirmOp
  /\ op.outcome = "maxAttempts"
  /\ Len(op.tried) = MAX_ATTEMPTS
  /\ \A i \in 1..MAX_ATTEMPTS :
       \E j \in 1..Len(op.tried[i].failedChanges) :
         op.tried[i].failedChanges[j].change = op.tried[i].changes[1]

\* C6: when the MAX_ATTEMPTS-th attempt of an apply that no other handler
\* interleaved with still fails, error is the max-attempts error naming the
\* file of every failed change, and libraryFiles, frontendFiles,
\* analysisResult and undoStack are what they were when the apply was
\* invoked.
C6_MaxAttemptsLeavesStateUntouched ==
  (/\ ConfirmOp
   /\ op.outcome = "maxAttempts"
   /\ op.clean)
    => /\ error = Error("maxAttemptsError",
                        [i \in 1..Len(LastAttempt.failedChanges) |->
                           LastAttempt.failedChanges[i].change.fileName])
       /\ error[1].files # <<>>
       /\ StateAsAt(op.start)
       /\ undoStack = op.start.undoStack

C6_Witness ==
  /\ ConfirmOp
  /\ op.outcome = "maxAttempts"
  /\ op.clean
  /\ error = Error("maxAttemptsError", <<FeName>>)
  /\ op.start.undoStack # <<>>

PreCommitState(start) ==
  [libraryFiles |-> start.libraryFiles, frontendFiles |-> start.frontendFiles,
   analysisResult |-> start.analysisResult]

CommittedOutcome ==
  /\ op.name \in {"handleConfirmRefactor", "handleBatchApply"}
  /\ op.outcome = "committed"

NothingAppliedOutcome ==
  \/ op.name = "handleBatchApply"
       /\ op.outcome \in {"noFixesSelected", "generatorRejected", "allFailed"}
  \/ op.name = "handleUndoFix" /\ op.outcome = "undoFailed"
  \/ op.name = "handleConfirmRefactor"
       /\ op.outcome \in {"maxAttempts", "selfCorrectionError"}

\* C9: an operation that no other handler interleaved with leaves undoStack
\* with exactly one more snapshot, that of the files and analysis at its
\* invocation, if it committed, and leaves undoStack as it was at its
\* invocation if it ended without applying anything (no fix selected,
\* generator call rejected, every change failed, handleUndoFix without
\* appliedRefactorResult, single fix given up).
C9_OneSnapshotPerCommitNoneOtherwise ==
  op.clean =>
    /\ CommittedOutcome
         => undoStack = Append(op.start.undoStack, PreCommitState(op.start))
    /\ NothingAppliedOutcome => undoStack = op.start.undoStack

\* ------------------------------------------------------------------------
\* Vocabulary of the claims about long histories (SpecHistory)
\* ------------------------------------------------------------------------
LastOf(stack, n) == SubSeq(stack, Len(stack) - n + 1, Len(stack))

C11_UndoOnEmptyStackIsNoOp ==
  op.name = "handleUndo" =>
    IF op.start.undoStack = <<>>
      THEN /\ op.outcome = "empty"
           /\ StateAsAt(op.start)
           /\ undoStack = <<>>
      ELSE op.outcome = "restored"

C11_Witness ==
  /\ op.name = "handleUndo"
  /\ op.start.undoStack = <<>>
  /\ op.prev.name = "handleUndo"
  /\ op.prev.outcome = "restored"
  /\ analysisResult # Null
  /\ undoStack = <<>>

\* The named file as the call returned it, and whether a change to it was
\* applied.
OutputFile(name) ==
  IF FindIndex(Returned.newLibraryFiles, name) # 0
    THEN Returned.newLibraryFiles[FindIndex(Returned.newLibraryFiles, name)]
    ELSE Returned.newFrontendFiles[FindIndex(Returned.newFrontendFiles, name)]

AppliedTo(name) ==
  \E i \in 1..Len(Returned.applied) : Returned.applied[i].fileName = name

\* C12: one call of applyChangesToFiles raises the changesCount of every
\* file that received at least one applied change by exactly 1, however
\* many changes were applied to it, and leaves the changesCount of every
\* other file as it was (an absent count read as 0).
C12_CountRaisedOncePerCall ==
  Called =>
    \A name \in {LibName, FeName} :
      CountOrZero(OutputFile(name).changesCount) =
        CountOrZero(InputFile(name).changesCount)
        + (IF AppliedTo(name) THEN 1 ELSE 0)

\* The changes of the call that name a file of the project, in call order,
\* and what the call would return for them alone.
KnownFile(change) == change.fileName \in {LibName, FeName}
ChangesToKnownFiles == SelectSeq(callChanges, KnownFile)
ReturnedForKnownFiles ==
  applyChangesToFiles(ChangesToKnownFiles, libraryFiles, frontendFiles)

\* C13: every change whose fileName matches no file is reported in
\* failedChanges with reason SNIPPET_NOT_FOUND; the returned files and the
\* applied changes are those of the same call without these changes, and
\* nothing else is reported beyond the failures of that call.
C13_UnknownFileFailsAlone ==
  Called =>
    /\ \A i \in 1..Len(callChanges) :
         ~KnownFile(callChanges[i])
           => \E j \in 1..Len(Returned.failedChanges) :
                Returned.failedChanges[j] =
                  [change |-> callChanges[i], reason |-> SNIPPET_NOT_FOUND]
    /\ Returned.newLibraryFiles = ReturnedForKnownFiles.newLibraryFiles
    /\ Returned.newFrontendFiles = ReturnedForKnownFiles.newFrontendFiles
    /\ Returned.applied = ReturnedForKnownFiles.applied
    /\ Len(Returned.failedChanges) =
         Len(ReturnedForKnownFiles.failedChanges)
         + Len(callChanges) - Len(ChangesToKnownFiles)

C13_Witness ==
  /\ Called
  /\ Len(callChanges) = 2
  /\ ~KnownFile(callChanges[1])
  /\ callChanges[2].fileName = LibName
  /\ Returned.applied = <<callChanges[2]>>
  /\ Returned.failedChanges =
       <<[change |-> callChanges[1], reason |-> SNIPPET_NOT_FOUND]>>
  /\ LibContentOut # LibContentIn

\* ------------------------------------------------------------------------
\* Claims about what an apply commits and reports
\* ------------------------------------------------------------------------
BatchOp == op.name = "handleBatchApply"

\* The batch has received the generator's changes and applied them.
BatchResolved == BatchOp /\ op.outcome \in {"committed", "committing", "allFailed"}

\* What applyChangesToFiles makes of the changes the operation tried last,
\* on the files its handler was invoked with.
AppliedAtStart ==
  applyChangesToFiles(LastAttempt.changes, op.start.libraryFiles,
                      op.start.frontendFiles)

InLastFailed(change) ==
  \E i \in 1..Len(LastAttempt.failedChanges) :
    LastAttempt.failedChanges[i].change = change

\* Every change of the last attempt failed, and there was one.
EveryChangeFailed ==
  /\ LastAttempt.changes # <<>>
  /\ \A i \in 1..Len(LastAttempt.changes) : InLastFailed(LastAttempt.changes[i])

\* C15: when handleBatchApply has applied the generator's changes, the file
\* sets are left as they were at the invocation exactly when every change
\* of a non-empty batch failed; otherwise libraryFiles and frontendFiles
\* become the files with every change that validated applied to them,
\* failed siblings or not.
C15_BatchCommitsUnlessAllFailed ==
  BatchResolved =>
    IF EveryChangeFailed
      THEN /\ op.outcome = "allFailed"
           /\ op.clean => FilesAsAt(op.start)
      ELSE /\ op.outcome \in {"committed", "committing"}
           /\ libraryFiles = AppliedAtStart.newLibraryFiles
           /\ frontendFiles = AppliedAtStart.newFrontendFiles
           /\ AppliedAtStart.applied =
                SelectSeq(LastAttempt.changes, LAMBDA c : ~InLastFailed(c))

\* A batch of two changes of which the second failed: the first is in the
\* committed library file.
C15_Witness ==
  /\ BatchOp
  /\ op.outcome = "committed"
  /\ op.clean
  /\ LastAttempt.changes = <<AtoB, FeMiss>>
  /\ InLastFailed(FeMiss)
  /\ ~InLastFailed(AtoB)
  /\ op.start.libraryFiles[1].content = <<"a">>
  /\ libraryFiles[1].content = <<"b">>

\* The files named to the user after the step: those of the error message.
\* The notifications of a committed batch and of handleUndoFix
\* (src/App.tsx:550, 619) carry a count or a fixed text and name no file.
ReportedFiles ==
  IF error = Null THEN {} ELSE {error[1].files[i] : i \in 1..Len(error[1].files)}

\* The operation has ended after applying changes.
ApplyEnded ==
  \/ ConfirmOp /\ op.outcome \in {"committed", "maxAttempts", "selfCorrectionError"}
  \/ BatchOp /\ op.outcome \in {"committed", "allFailed"}
  \/ op.name = "handleUndoFix" /\ op.outcome = "reverted"

\* C16: whenever an apply operation (single fix, batch, undo of a fix) ends
\* with at least one failed change in its last application, the error shown
\* names the file of every failed change; in particular no operation
\* commits new file contents while a failed change of it goes unreported.
C16_EveryFailedFileReported ==
  (/\ ApplyEnded
   /\ op.tried # <<>>
   /\ LastAttempt.failedChanges # <<>>)
    => \A i \in 1..Len(LastAttempt.failedChanges) :
         LastAttempt.failedChanges[i].change.fileName \in ReportedFiles

\* An apply (single fix or batch) has started and not yet ended.
PendingApply == confirmTask # Null \/ batchTask # Null

\* The step starts an apply: a confirm from the modal, or a batch with at
\* least one selected fix.
StartsApply ==
  \/ handleConfirmRefactor
  \/ handleBatchApply /\ selectedFixes # <<>>

\* C17: while an apply is pending isApplyingChanges is true, and no second
\* apply, single-fix confirm or batch, starts before the pending one has
\* ended: an apply starts only when none is pending, so never two are
\* pending together.
C17_OneApplyAtATime ==
  /\ [](PendingApply => isApplyingChanges)
  /\ [](~(confirmTask # Null /\ batchTask # Null))
  /\ [][StartsApply => ~PendingApply /\ ~isApplyingChanges]_vars

\* A batch is pending while the modal shows a result ready to be confirmed.
C17_Witness ==
  /\ batchTask # Null
  /\ isApplyingChanges
  /\ isRefactorModalOpen
  /\ currentRefactor # Null
  /\ ~isRefactoring

\* correctRefactorResult calls the operation of the last step has issued:
\* one after every attempt that was followed by a wait.
CorrectionCallsOf(o) ==
  IF o.outcome \in {"correcting", "selfCorrectionError"}
    THEN Len(o.tried)
    ELSE Len(o.tried) - 1

\* The step issues a correctRefactorResult call.
IssuesCorrectionCall ==
  /\ confirmTask' # Null
  /\ confirmTask'[1].phase = "correcting"
  /\ confirmTask # Null => confirmTask'[1].attempt # confirmTask[1].attempt

\* C18: a single-fix apply has at most one correctRefactorResult call
\* outstanding: the first is issued by the confirm itself after attempt 1,
\* and every further one by the step in which the outstanding call
\* resolved and the next attempt was made; it issues at most
\* MAX_ATTEMPTS - 1 calls.
C18_OneCorrectionCallAtATime ==
  /\ [](AwaitingCorrection => confirmTask[1].attempt <= MAX_ATTEMPTS - 1)
  /\ [](ConfirmOp => CorrectionCallsOf(op) <= MAX_ATTEMPTS - 1)
  /\ [][IssuesCorrectionCall =>
          IF confirmTask = Null
            THEN /\ handleConfirmRefactor
                 /\ confirmTask'[1].attempt = 1
            ELSE /\ AwaitingCorrection
                 /\ correctRefactorResultResolves
                 /\ confirmTask'[1].attempt = confirmTask[1].attempt + 1
                 /\ confirmTask'[1].start = confirmTask[1].start]_vars

\* The second correction call of an apply is outstanding.
C18_Witness ==
  /\ ConfirmOp
  /\ op.outcome = "correcting"
  /\ CorrectionCallsOf(op) = MAX_ATTEMPTS - 1
  /\ AwaitingCorrection
  /\ confirmTask[1].attempt = 2

\* The change at place j of an application attempt was applied.
AppliedIn(attempt, j) ==
  \A i \in 1..Len(attempt.failedChanges) :
    attempt.failedChanges[i].change # attempt.changes[j]

\* C19: on a retry the candidate list of the next attempt keeps, at its
\* place, every change that applied in the failed attempt; only the entries
\* of the failed changes are replaced by the generator's corrections.
C19_RetryKeepsAppliedChanges ==
  ConfirmOp =>
    \A k \in 1..(Len(op.tried) - 1) :
      \A j \in 1..Len(op.tried[k].changes) :
        AppliedIn(op.tried[k], j) =>
          /\ j <= Len(op.tried[k + 1].changes)
          /\ op.tried[k + 1].changes[j] = op.tried[k].changes[j]

\* What an attempt with the given changes commits when it is resolved
\* against the state visible at the step: the files, and the stack with the
\* snapshot of that state pushed.
ResolvedOnVisible(changes) ==
  [applied |-> applyChangesToFiles(changes, libraryFiles, frontendFiles),
   stack |-> pushToUndoStack(undoStack,
                             UndoState(libraryFiles, frontendFiles, analysisResult))]

\* C20: an application attempt made after awaiting the generator (attempt 2
\* or 3) that commits, commits the result of applying its changes to the
\* libraryFiles and frontendFiles visible at that step and pushes the
\* snapshot of that state onto the undoStack visible at that step, whatever
\* other handlers (handleUndo for one) did while the call was pending.
C20_RetryResolvedOnVisibleFiles ==
  [][(/\ correctRefactorResultResolves
      /\ op'.outcome \in {"committed", "committing"})
       => \E v \in {ResolvedOnVisible(op'.tried[Len(op'.tried)].changes)} :
            /\ libraryFiles' = v.applied.newLibraryFiles
            /\ frontendFiles' = v.applied.newFrontendFiles
            /\ undoStack' = v.stack]_vars

\* The step calls pushToUndoStack.
PushStep ==
  \/ handleUndoFix
  \/ handleBatchApply /\ selectedFixes # <<>>
  \/ /\ handleConfirmRefactor \/ correctRefactorResultResolves
     /\ op'.outcome \in {"committed", "committing"}

\* The stack after the step is the stack before it plus one snapshot, minus
\* the oldest one on overflow.
PushedOntoVisibleStack ==
  /\ undoStack' # <<>>
  /\ undoStack' = pushToUndoStack(undoStack, undoStack'[Len(undoStack')])

\* C25: no update of the undo stack is computed from a stale copy: every
\* push (handleConfirmRefactor, handleBatchApply, handleUndoFix) yields the
\* stack as it is at that step plus the new snapshot, minus the oldest on
\* overflow, and every handleUndo restores the snapshot it removes, for all
\* interleavings, handlers memoised before the stack last changed included.
C25_StackNeverUpdatedFromStaleCopy ==
  /\ [][PushStep => PushedOntoVisibleStack]_vars
  /\ [][(handleUndo /\ undoStack # <<>>) =>
          /\ undoStack = Append(undoStack', LastState(undoStack))
          /\ libraryFiles' = LastState(undoStack).libraryFiles
          /\ frontendFiles' = LastState(undoStack).frontendFiles
          /\ analysisResult' = LastState(undoStack).analysisResult]_vars

\* ------------------------------------------------------------------------
\* Claims about arrays and snapshots in memory (SpecReferences)
\* ------------------------------------------------------------------------
\* Every snapshot on the stack still holds the files it was pushed with.
SnapshotsKeepTheirFiles ==
  /\ Len(undoStackRefs) = Len(undoStack)
  /\ \A i \in 1..Len(undoStackRefs) :
       /\ FilesAt(heap, undoStackRefs[i].libraryFiles) = undoStack[i].libraryFiles
       /\ FilesAt(heap, undoStackRefs[i].frontendFiles) = undoStack[i].frontendFiles

\* The current arrays hold the files the state was given.
CurrentArraysKeepTheirFiles ==
  /\ FilesAt(heap, libraryFilesRef) = libraryFiles
  /\ FilesAt(heap, frontendFilesRef) = frontendFiles

\* A step writes no array or object that existed before it.
NoCellRewritten ==
  /\ Len(heap') >= Len(heap)
  /\ SubSeq(heap', 1, Len(heap)) = heap

\* C14: applyChangesToFiles never writes the arrays or file objects it is
\* given: it works on a copy.  So no step rewrites memory that existed
\* before it, and every snapshot pushed to the undo stack keeps the content
\* and changesCount of its files through every later apply, changelog
\* update and undo, as do the current file sets.
C14_InputsAndSnapshotsNeverMutated ==
  /\ [](scenario = "references" =>
          SnapshotsKeepTheirFiles /\ CurrentArraysKeepTheirFiles)
  /\ [][scenario = "references" => NoCellRewritten]_vars

\* Two snapshots are on the stack; the older one was pushed before the
\* change log was written, the newer one after it; since then a further
\* apply has replaced both file sets and the change log was rewritten.
C14_Witness ==
  /\ scenario = "references"
  /\ Len(undoStackRefs) = 2
  /\ undoStack[1].frontendFiles[2].content = <<>>
  /\ undoStack[2].frontendFiles[2].content = <<"n">>
  /\ undoStackRefs[1].frontendFiles # undoStackRefs[2].frontendFiles
  /\ libraryFiles # undoStack[2].libraryFiles
  /\ libraryFiles[1].changesCount = 2
  /\ frontendFiles[2].content = <<>>
  /\ FilesAt(heap, undoStackRefs[1].libraryFiles) = LibUpload
  /\ FilesAt(heap, undoStackRefs[2].libraryFiles)[1].changesCount = 1

\* ------------------------------------------------------------------------
\* Further claims about applyChangesToFiles as a function (SpecApply)
\* ------------------------------------------------------------------------
\* The k-th change of the named file was reported as failed when processed.
FailedAt(name, k) ==
  Len(AfterChange(name, k).failed) = Len(BeforeChange(name, k).failed) + 1

\* C23: applyChangesToFiles reports no change as SNIPPET_NOT_FOUND whose
\* original snippet occurs in its file's content at the moment the change
\* is processed, whatever earlier changes of the call did to that content.
C23_PresentSnippetNeverReported ==
  Called =>
    \A name \in {LibName, FeName} :
      \A k \in 1..Len(GroupOf(name)) :
        Occurs(BeforeChange(name, k).content, GroupOf(name)[k].originalCodeSnippet)
          => ~FailedAt(name, k)

\* How often a change is listed in a sequence of changes.
TimesIn(changes, change) ==
  Cardinality({i \in 1..Len(changes) : changes[i] = change})

FailedChangesOf(result) ==
  [i \in 1..Len(result.failedChanges) |-> result.failedChanges[i].change]

AppliedToLib == SelectSeq(Returned.applied, LAMBDA c : c.fileName = LibName)

SpanOf(change) ==
  [at |-> FirstAt(LibContentIn, change.originalCodeSnippet),
   n |-> Len(change.originalCodeSnippet),
   corrected |-> change.correctedCodeSnippet]

AcceptedSpans == {SpanOf(AppliedToLib[i]) : i \in 1..Len(AppliedToLib)}

SpansDisjoint(spans) ==
  \A p \in spans : \A q \in spans :
    p # q => (p.at + p.n <= q.at \/ q.at + q.n <= p.at)

\* The content from position from on (0-based), with every span at or after
\* from replaced by its corrected snippet and all else kept.
RECURSIVE Rebuilt(_, _, _)
Rebuilt(content, spans, from) ==
  LET ahead == {p \in spans : p.at >= from}
  IN  IF ahead = {} THEN SubSeq(content, from + 1, Len(content))
      ELSE LET p == CHOOSE q \in ahead : \A o \in ahead : q.at <= o.at
           IN  SubSeq(content, from + 1, p.at) \o p.corrected
                 \o Rebuilt(content, spans \ {p}, p.at + p.n)

\* C21: the patches the earlier revision accepts for a file are located in
\* the original content and pairwise non-overlapping, and applying them in
\* descending order of start index yields the original content with each
\* located span replaced by its corrected snippet and every character
\* outside the spans unchanged and in the same order.
C21_DescendingOrderReplacesSpans ==
  Called =>
    /\ Cardinality(AcceptedSpans) = Len(AppliedToLib)
    /\ \A i \in 1..Len(AppliedToLib) :
         Occurs(LibContentIn, AppliedToLib[i].originalCodeSnippet)
    /\ SpansDisjoint(AcceptedSpans)
    /\ LibContentOut = Rebuilt(LibContentIn, AcceptedSpans, 0)

\* Two patches were applied, and the left one changes the length of the
\* content before the right one.
C21_Witness ==
  /\ Called
  /\ Len(AppliedToLib) = 2
  /\ \E p \in AcceptedSpans : \E q \in AcceptedSpans :
       /\ p.at < q.at
       /\ Len(p.corrected) # p.n
       /\ q.corrected # SubSeq(LibContentIn, q.at + 1, q.at + q.n)
  /\ Len(LibContentOut) # Len(LibContentIn)

\* C22: a change the earlier revision discarded only because its span
\* overlapped an accepted patch is listed in failedChanges, but is not among
\* the failures handleConfirmRefactor passes to correctRefactorResult.
C22_OverlapNotForwarded ==
  Called =>
    \A i \in 1..Len(Returned.overlapped) :
      /\ InFailed(Returned, Returned.overlapped[i])
      /\ \A k \in 1..Len(SnippetNotFoundFailures(Returned.failedChanges)) :
           SnippetNotFoundFailures(Returned.failedChanges)[k].change
             # Returned.overlapped[i]

\* ------------------------------------------------------------------------
\* Claims about re-analysis (SpecReanalysis)
\* ------------------------------------------------------------------------

\* Every snapshot of the stack before the step is on the stack after it, in
\* place, or the step pushed onto a full stack and only the oldest is gone.
SnapshotsKept ==
  \/ /\ Len(undoStack') >= Len(undoStack)
     /\ SubSeq(undoStack', 1, Len(undoStack)) = undoStack
  \/ /\ Len(undoStack) = MAX_UNDO_STACK_SIZE
     /\ Len(undoStack') = MAX_UNDO_STACK_SIZE
     /\ SubSeq(undoStack', 1, MAX_UNDO_STACK_SIZE - 1) = Tail(undoStack)

\* What the user does to the project: uploading or removing files, or
\* starting an analysis from its button.
UserResetsProject ==
  \/ handleLibraryFilesUploaded
  \/ handleFrontendFilesUploaded
  \/ handleRemoveLibraryFile
  \/ handleRemoveFrontendFile
  \/ handleAnalyze

\* C26: a snapshot pushed by a committed apply stays on the undo stack until
\* handleUndo pops it, the capacity evicts it, or the user uploads or removes
\* files or starts an analysis; no other step, in particular none the apply
\* itself schedules with autoReanalyze on, takes a snapshot off the stack.
C26_SnapshotStaysUntilPoppedOrReset ==
  [][SnapshotsKept \/ handleUndo \/ UserResetsProject]_vars

\* ------------------------------------------------------------------------
\* Claims about undoing one recommendation (SpecApply): the call is the
\* application handleConfirmRefactor commits, which has no failed change
\* ------------------------------------------------------------------------
ContentsOf(files) == [i \in 1..Len(files) |-> files[i].content]

CommittedCall ==
  /\ Called
  /\ callChanges # <<>>
  /\ Returned.failedChanges = <<>>

\* What handleUndoFix stores on the files the committed call left
\* (src/App.tsx:597-609).
UndoFixReturns ==
  applyChangesToFiles(ReversedAll(callChanges), Returned.newLibraryFiles,
                      Returned.newFrontendFiles)

\* C27: undoing a committed recommendation on the files it left, by applying
\* its changes with the two snippets swapped, gives every file the content
\* it had before the recommendation was applied.
C27_UndoFixRestoresContent ==
  CommittedCall =>
    /\ ContentsOf(UndoFixReturns.newLibraryFiles) = ContentsOf(libraryFiles)
    /\ ContentsOf(UndoFixReturns.newFrontendFiles) = ContentsOf(frontendFiles)

\* ------------------------------------------------------------------------
\* Claims about the order of the input list (SpecApply)
\* ------------------------------------------------------------------------
\* The input list in the opposite order, and what the function returns
\* for it on the same files.
OppositeOrder == [i \in 1..Len(callChanges) |-> callChanges[Len(callChanges) + 1 - i]]

ReturnedForOppositeOrder ==
  applyChangesToFiles(OppositeOrder, libraryFiles, frontendFiles)

FailedSet(result) ==
  {result.failedChanges[i].change : i \in 1..Len(result.failedChanges)}

\* Every change of the call is to the library file, with a snippet that
\* occurs in its original content, and the spans of the first occurrences
\* are pairwise non-overlapping.
CallHasDisjointSpans ==
  /\ Called
  /\ Len(callChanges) >= 2
  /\ \A i \in 1..Len(callChanges) :
       /\ callChanges[i].fileName = LibName
       /\ callChanges[i].originalCodeSnippet # <<>>
       /\ Occurs(LibContentIn, callChanges[i].originalCodeSnippet)
  /\ \A i \in 1..Len(callChanges) : \A j \in 1..Len(callChanges) :
       i # j =>
         LET p == SpanOf(callChanges[i])
             q == SpanOf(callChanges[j])
         IN  p.at + p.n <= q.at \/ q.at + q.n <= p.at

\* C28: for changes to one file whose original snippets lie on pairwise
\* non-overlapping spans of the original content, the returned content and
\* the set of failed changes are the same whatever the order of the list.
C28_OrderOfChangesIrrelevant ==
  CallHasDisjointSpans =>
    /\ ReturnedForOppositeOrder.newLibraryFiles[1].content = LibContentOut
    /\ FailedSet(ReturnedForOppositeOrder) = FailedSet(Returned)

\* ------------------------------------------------------------------------
\* Claims about the marks a batch leaves in the analysis (Spec)
\* ------------------------------------------------------------------------
BatchCommitted == BatchOp /\ op.outcome \in {"committed", "committing"}

\* The recommendation the fix names carries appliedSuggestionIndex.
MarkedApplied(analysis, fix) ==
  /\ analysis # Null
  /\ RecommendationOf(analysis[1], fix) # <<>>
  /\ RecommendationOf(analysis[1], fix)[1].appliedSuggestionIndex # Undefined

\* The batch that just committed has marked the fix.
MarkedByBatch(fix) ==
  /\ MarkedApplied(analysisResult, fix)
  /\ ~MarkedApplied(op.start.analysisResult, fix)

\* A change of the batch to the file of the fix was applied.
SomeChangeApplied(fix) ==
  \E i \in 1..Len(LastAttempt.changes) :
    /\ LastAttempt.changes[i].fileName = fix.fileName
    /\ ~InLastFailed(LastAttempt.changes[i])

\* C29: after handleBatchApply commits, a fix is marked as applied only if
\* at least one change to its file was applied; a fix whose file had every
\* change fail, or no change at all, stays unmarked.
C29_MarkedOnlyIfChangeApplied ==
  BatchCommitted =>
    \A fileName \in FixFiles :
      MarkedByBatch(Fix(fileName)) => SomeChangeApplied(Fix(fileName))

\* ------------------------------------------------------------------------
\* Claims about handleGeminiCallWithRetry (SpecService)
\* ------------------------------------------------------------------------
EndedOn(k) == k = Len(geminiCall.log) /\ geminiCall.calls = k

\* C30: one invocation of handleGeminiCallWithRetry issues at most retries
\* API calls, returns on the first call that succeeds, and fails at once,
\* without a further API call, on a response whose finish reason is not
\* STOP, in English and in Russian.
C30_RetriesBoundedAndFinishReasonFatal ==
  /\ geminiCall.calls <= geminiCall.retries
  /\ \A k \in 1..Len(geminiCall.log) :
       /\ geminiCall.log[k] = "succeeded" =>
            EndedOn(k) /\ geminiCall.pc = "returned"
       /\ geminiCall.log[k] \in FinishReasons =>
            EndedOn(k) /\ geminiCall.pc = "thrown"

====
